---- MODULE Spec2Model ----
(***************************************************************************)
(* The TRBK book container of trustyx4: the desktop encoder                *)
(* (tools/trusty-book: wrap_runs, paginate_lines, write_trbk), the         *)
(* whole-file decoder (core/src/trbk.rs: parse_trbk, parse_trbk_page_ops)  *)
(* and the streaming reader of the device (x4/src/image_source.rs:         *)
(* open_trbk, trbk_page, close_trbk).                                      *)
(*                                                                         *)
(* Bytes are naturals 0..255, a file is a sequence of bytes, a text is a   *)
(* sequence of Unicode scalar values (Rust's chars) and becomes bytes only *)
(* through utf8_encode.  Offsets are 0-based as in the source; the byte at *)
(* offset o of data is data[o + 1].                                        *)
(***************************************************************************)
EXTENDS Integers, Sequences, FiniteSets, TLC

VARIABLES
    pc,             \* position of the conversion / decoding pipeline
    overflow_checks,\* the build: TRUE = debug (overflow panics), FALSE = release (wraps)
    usize_bits,     \* pointer width of the target running the decoder (32 or 64)
    spine_runs,     \* encoder input: Seq of SpineRuns {spine_index, runs}
    options,        \* encoder input: RenderOptions
    metadata,       \* encoder input: TrbkMetadata (title, author, language, identifier)
    glyphs,         \* encoder input: Seq of Glyph
    toc_entries,    \* encoder input: Seq of TrbkTocEntry
    cache,          \* encoder input: the BookCache's spine and toc
    rasters,        \* encoder input: the font's rasterization of the used codepoints
    lines,          \* result of wrap_runs
    pages,          \* result of paginate_lines
    spine_to_page,  \* result of compute_spine_page_map
    file,           \* the bytes of the .trbk file on disk
    book,           \* result of parse_trbk(file)
    trbk,           \* SdImageSource.trbk: the streaming session (Option<TrbkStream>)
    info,           \* result of the last open_trbk
    page,           \* result of the last trbk_page
    io_log,         \* the (seek position, bytes asked, bytes got) of every read of the last call
    records,        \* the page instruction records a stream was built from
    stream,         \* a page instruction stream given to parse_trbk_page_ops
    ops,            \* result of parse_trbk_page_ops(stream)
    app,            \* the Application: state, current_book, current_page, current_page_ops, ...
    screen          \* what the last draw put in the display buffers

vars == <<pc, overflow_checks, usize_bits, spine_runs, options, metadata, glyphs,
          toc_entries, cache, rasters, lines, pages, spine_to_page, file, book, trbk, info, page,
          io_log, records, stream, ops, app, screen>>

----------------------------------------------------------------------------
(* Fixed-width integers.                                                   *)

U16 == 65536
I16_MAX == 32767
I16_MIN == -32768

Min(a, b) == IF a <= b THEN a ELSE b
Max(a, b) == IF a >= b THEN a ELSE b

\* `v as u16`: truncation to the low 16 bits.
as_u16(v) == v % U16
\* `v as i16` of a u16 or of a wider integer: the low 16 bits, read signed.
as_i16(v) == LET w == v % U16 IN IF w > I16_MAX THEN w - U16 ELSE w
\* Rust's integer division truncates toward zero.
div_trunc(a, b) == IF a >= 0 THEN a \div b ELSE -((-a) \div b)
i16_saturating_sub(a, b) == Max(I16_MIN, Min(I16_MAX, a - b))
u16_saturating_sub(a, b) == Max(0, a - b)
usize_saturating_sub(a, b) == Max(0, a - b)
u16_saturating_add(a, b) == Min(U16 - 1, a + b)

\* to_le_bytes of u16 / i16, and of a u32 below 2^31 (every length, offset
\* and count the encoder writes).
u16_to_le_bytes(v) == LET w == v % U16 IN <<w % 256, w \div 256>>
u32_to_le_bytes(v) ==
    <<v % 256, (v \div 256) % 256, (v \div 65536) % 256, v \div 16777216>>
u16_from_le_bytes(b0, b1) == b0 + 256 * b1
i16_from_le_bytes(b0, b1) == as_i16(b0 + 256 * b1)

\* A sequence of n copies of c.
Repeat(c, n) == [i \in 1..n |-> c]

\* Bind(e, LAMBDA x : body) is `let x = e; body`: the value of e under the
\* name x.
Bind(bound, body(_)) == body(bound)

----------------------------------------------------------------------------
(* Integers of 32 bits and more.  A u32 or usize value read from a file    *)
(* can exceed what a model checker's integers hold, so it is kept as two  *)
(* limbs <<hi, lo>> standing for hi * 2^16 + lo, with lo in 0..65535.  A   *)
(* u32 has hi < 2^16; a sum or product that left the 32 bits has hi >=     *)
(* 2^16, which is how overflow is seen.                                    *)

W(n) == <<n \div U16, n % U16>>
W_norm(hi, lo) == <<hi + (lo \div U16), lo % U16>>
W_add(a, b) == W_norm(a[1] + b[1], a[2] + b[2])
W_mul(a, k) == W_norm(a[1] * k, a[2] * k)
\* a - b for a >= b.
W_sub(a, b) ==
    IF a[2] >= b[2] THEN <<a[1] - b[1], a[2] - b[2]>>
    ELSE <<a[1] - b[1] - 1, a[2] + U16 - b[2]>>
W_lt(a, b) == a[1] < b[1] \/ (a[1] = b[1] /\ a[2] < b[2])
W_le(a, b) == a = b \/ W_lt(a, b)
\* The value as a plain integer, for a value below 2^31.
W_small(a) == a[1] < 32768
W_int(a) == a[1] * U16 + a[2]
\* a > n and a <= n for a plain integer n.
W_gt(a, n) == ~W_small(a) \/ W_int(a) > n
W_leq(a, n) == ~W_gt(a, n)
\* The low 32 bits.
W_wrap32(a) == <<a[1] % U16, a[2]>>

u32_from_le_bytes(b0, b1, b2, b3) == <<b2 + 256 * b3, b0 + 256 * b1>>

----------------------------------------------------------------------------
(* UTF-8 (str::as_bytes, core::str::from_utf8).                            *)

IsCont(b) == b >= 128 /\ b <= 191

utf8_char(cp) ==
    IF cp < 128 THEN <<cp>>
    ELSE IF cp < 2048 THEN <<192 + (cp \div 64), 128 + (cp % 64)>>
    ELSE IF cp < 65536
         THEN <<224 + (cp \div 4096), 128 + ((cp \div 64) % 64), 128 + (cp % 64)>>
    ELSE <<240 + (cp \div 262144), 128 + ((cp \div 4096) % 64),
           128 + ((cp \div 64) % 64), 128 + (cp % 64)>>

RECURSIVE utf8_encode_from(_, _)
utf8_encode_from(text, i) ==
    IF i > Len(text) THEN <<>>
    ELSE utf8_char(text[i]) \o utf8_encode_from(text, i + 1)

\* str::as_bytes.  A text of one repeated ASCII char encodes to itself (the
\* first branch only spares the evaluation of the recursion on long texts).
as_bytes(text) ==
    IF Len(text) > 0 /\ text[1] < 128 /\ text = Repeat(text[1], Len(text))
    THEN text
    ELSE utf8_encode_from(text, 1)

\* The number of bytes of the well-formed sequence starting at b[i], 0 if none.
utf8_seq_len(b, i) ==
    LET n  == Len(b)
        b0 == b[i]
        c(k) == i + k <= n /\ IsCont(b[i + k])
    IN  IF b0 < 128 THEN 1
        ELSE IF b0 >= 194 /\ b0 <= 223 THEN (IF c(1) THEN 2 ELSE 0)
        ELSE IF b0 = 224
             THEN (IF c(1) /\ c(2) /\ b[i + 1] >= 160 THEN 3 ELSE 0)
        ELSE IF b0 = 237
             THEN (IF c(1) /\ c(2) /\ b[i + 1] <= 159 THEN 3 ELSE 0)
        ELSE IF b0 >= 225 /\ b0 <= 239 THEN (IF c(1) /\ c(2) THEN 3 ELSE 0)
        ELSE IF b0 = 240
             THEN (IF c(1) /\ c(2) /\ c(3) /\ b[i + 1] >= 144 THEN 4 ELSE 0)
        ELSE IF b0 = 244
             THEN (IF c(1) /\ c(2) /\ c(3) /\ b[i + 1] <= 143 THEN 4 ELSE 0)
        ELSE IF b0 >= 241 /\ b0 <= 243 THEN (IF c(1) /\ c(2) /\ c(3) THEN 4 ELSE 0)
        ELSE 0

utf8_scalar(b, i, n) ==
    IF n = 1 THEN b[i]
    ELSE IF n = 2 THEN (b[i] - 192) * 64 + (b[i + 1] - 128)
    ELSE IF n = 3 THEN (b[i] - 224) * 4096 + (b[i + 1] - 128) * 64 + (b[i + 2] - 128)
    ELSE (b[i] - 240) * 262144 + (b[i + 1] - 128) * 4096
         + (b[i + 2] - 128) * 64 + (b[i + 3] - 128)

RECURSIVE utf8_decode_from(_, _)
utf8_decode_from(b, i) ==
    IF i > Len(b) THEN [ok |-> TRUE, text |-> <<>>]
    ELSE LET n == utf8_seq_len(b, i)
         IN  IF n = 0 THEN [ok |-> FALSE, text |-> <<>>]
             ELSE LET rest == utf8_decode_from(b, i + n)
                  IN  IF rest.ok
                      THEN [ok |-> TRUE, text |-> <<utf8_scalar(b, i, n)>> \o rest.text]
                      ELSE rest

\* core::str::from_utf8 followed by to_string.
from_utf8(b) ==
    IF Len(b) > 0 /\ b[1] < 128 /\ b = Repeat(b[1], Len(b))
    THEN [ok |-> TRUE, text |-> b]
    ELSE utf8_decode_from(b, 1)

----------------------------------------------------------------------------
(* Results.  Every fallible function returns a record whose kind is "Ok"   *)
(* or an ImageError variant ("Decode", "Unsupported", "Io"); "Panic" is a  *)
(* Rust panic (arithmetic overflow in a debug build, a slice out of range, *)
(* a capacity overflow).                                                   *)

Err(k) == [kind |-> k]
IsOk(r) == r.kind = "Ok"

\* Whether a sum or product of u32-sized operands left the range of usize.
usize_overflows(a) == usize_bits = 32 /\ a[1] >= U16

\* The result of a usize operation whose exact value is s: s, or on overflow
\* a panic in a debug build and the wrapped value in a release build.
usize_checked(s) ==
    IF ~usize_overflows(s) THEN [kind |-> "Ok", value |-> s]
    ELSE IF overflow_checks THEN Err("Panic")
    ELSE [kind |-> "Ok", value |-> W_wrap32(s)]

usize_add(a, b) == usize_checked(W_add(a, b))
usize_mul(a, k) == usize_checked(W_mul(a, k))

\* a + b in u32 (the streaming reader keeps its offsets as u32).
u32_add(a, b) ==
    LET s == W_add(a, b)
    IN  IF s[1] < U16 THEN [kind |-> "Ok", value |-> s]
        ELSE IF overflow_checks THEN Err("Panic")
        ELSE [kind |-> "Ok", value |-> W_wrap32(s)]

\* Vec::with_capacity(count) for elements of elem_size bytes: a request of
\* more than isize::MAX bytes panics (capacity overflow).
with_capacity(count, elem_size) ==
    IF usize_bits = 32 /\ ~W_small(W_mul(count, elem_size)) THEN Err("Panic")
    ELSE [kind |-> "Ok"]

\* The number of iterations of `for _ in 0..count` that can matter over data
\* of data_len bytes when every iteration consumes at least one byte and
\* fails once the data is exhausted.
loop_count(count, data_len) ==
    IF W_gt(count, data_len) THEN data_len + 1 ELSE W_int(count)

\* data[from..to] with 0-based, end-exclusive offsets (from <= to <= Len(data)).
Slice(data, from, to) == SubSeq(data, from + 1, to)

MAGIC == <<84, 82, 66, 75>>  \* b"TRBK"

----------------------------------------------------------------------------
(* Binary primitives of the decoder (core/src/trbk.rs).                    *)

read_u16(data, offset) ==
    IF offset + 2 > Len(data) THEN Err("Decode")
    ELSE [kind |-> "Ok", value |-> u16_from_le_bytes(data[offset + 1], data[offset + 2])]

read_u32(data, offset) ==
    IF offset + 4 > Len(data) THEN Err("Decode")
    ELSE [kind |-> "Ok",
          value |-> u32_from_le_bytes(data[offset + 1], data[offset + 2],
                                      data[offset + 3], data[offset + 4])]

\* read_u16_from / read_i16_from: the value and the advanced cursor.
read_u16_from(data, cursor) ==
    Bind(read_u16(data, cursor), LAMBDA r :
        IF IsOk(r) THEN [kind |-> "Ok", value |-> r.value, cursor |-> cursor + 2] ELSE r)

read_i16_from(data, cursor) ==
    IF cursor + 2 > Len(data) THEN Err("Decode")
    ELSE [kind |-> "Ok",
          value |-> i16_from_le_bytes(data[cursor + 1], data[cursor + 2]),
          cursor |-> cursor + 2]

\* data[start..start + len] for a length read from the file, as read_string
\* and parse_glyphs take it: `start + len > data.len()` is a usize sum; when
\* it overflows, a debug build panics at the sum and a release build wraps to
\* an end below the start, which passes the test and panics at the slice.
checked_slice(data, start, len) ==
    Bind(W_add(W(start), len), LAMBDA end :
        IF usize_overflows(end) THEN Err("Panic")
        ELSE IF W_gt(end, Len(data)) THEN Err("Decode")
        ELSE [kind |-> "Ok", bytes |-> Slice(data, start, W_int(end)),
              end |-> W_int(end)])

\* read_string: a u32 length, then that many bytes of UTF-8.
read_string(data, cursor) ==
    Bind(read_u32(data, cursor), LAMBDA l :
        IF ~IsOk(l) THEN l
        ELSE Bind(checked_slice(data, cursor + 4, l.value), LAMBDA s :
            IF ~IsOk(s) THEN s
            ELSE Bind(from_utf8(s.bytes), LAMBDA t :
                IF t.ok
                THEN [kind |-> "Ok", value |-> t.text, cursor |-> s.end]
                ELSE Err("Decode"))))

----------------------------------------------------------------------------
(* The page instruction interpreter (core/src/trbk.rs).                    *)

TextRunOp(x, y, style, text) == [x |-> x, y |-> y, style |-> style, text |-> text]

\* page_op_at failing on an opcode it does not know.
page_op_at_strict(data, cursor) ==
    LET opcode == data[cursor + 1]
        length == u16_from_le_bytes(data[cursor + 2], data[cursor + 3])
        start  == cursor + 3
    IN  IF start + length > Len(data) \/ opcode # 1 THEN Err("Decode")
        ELSE Bind(Slice(data, start, start + length), LAMBDA payload :
            IF Len(payload) < 6 THEN Err("Decode")
            ELSE Bind(from_utf8(Slice(payload, 6, Len(payload))), LAMBDA t :
                IF ~t.ok THEN Err("Decode")
                ELSE [kind |-> "Ok", next |-> start + length,
                      op |-> <<TextRunOp(
                          u16_from_le_bytes(payload[1], payload[2]),
                          u16_from_le_bytes(payload[3], payload[4]),
                          payload[5], t.text)>>]))

\* page_op_at skipping a 0x01 record whose payload is under 6 bytes.
page_op_at_lenient(data, cursor) ==
    LET opcode == data[cursor + 1]
        length == u16_from_le_bytes(data[cursor + 2], data[cursor + 3])
        start  == cursor + 3
    IN  IF start + length > Len(data) THEN Err("Decode")
        ELSE Bind(Slice(data, start, start + length), LAMBDA payload :
            IF opcode = 1 /\ Len(payload) >= 6
            THEN Bind(from_utf8(Slice(payload, 6, Len(payload))), LAMBDA t :
                     IF ~t.ok THEN Err("Decode")
                     ELSE [kind |-> "Ok", next |-> start + length,
                           op |-> <<TextRunOp(
                               u16_from_le_bytes(payload[1], payload[2]),
                               u16_from_le_bytes(payload[3], payload[4]),
                               payload[5], t.text)>>])
            ELSE [kind |-> "Ok", next |-> start + length, op |-> <<>>])

\* One iteration of the while loop of parse_trbk_page_ops at cursor: the
\* record's op (or none for an unknown opcode) and the next cursor.
page_op_at(data, cursor) ==
    LET opcode == data[cursor + 1]
        length == u16_from_le_bytes(data[cursor + 2], data[cursor + 3])
        start  == cursor + 3
    IN  IF start + length > Len(data) THEN Err("Decode")
        ELSE Bind(Slice(data, start, start + length), LAMBDA payload :
            IF opcode = 1
            THEN IF Len(payload) < 6 THEN Err("Decode")
                 ELSE Bind(from_utf8(Slice(payload, 6, Len(payload))), LAMBDA t :
                     IF ~t.ok THEN Err("Decode")
                     ELSE [kind |-> "Ok", next |-> start + length,
                           op |-> <<TextRunOp(
                               u16_from_le_bytes(payload[1], payload[2]),
                               u16_from_le_bytes(payload[3], payload[4]),
                               payload[5], t.text)>>])
            ELSE \* Ignore unknown ops for forward compatibility.
                 [kind |-> "Ok", next |-> start + length, op |-> <<>>])

RECURSIVE page_ops_from(_, _)
page_ops_from(data, cursor) ==
    IF cursor + 3 <= Len(data)
    THEN Bind(page_op_at(data, cursor), LAMBDA r :
             IF ~IsOk(r) THEN r
             ELSE Bind(page_ops_from(data, r.next), LAMBDA rest :
                      IF IsOk(rest)
                      THEN [kind |-> "Ok", ops |-> r.op \o rest.ops]
                      ELSE rest))
    ELSE [kind |-> "Ok", ops |-> <<>>]

parse_trbk_page_ops(data) == page_ops_from(data, 0)

----------------------------------------------------------------------------
(* The whole-file decoder parse_trbk (core/src/trbk.rs).                   *)

TocEntry(title, page_index, level) ==
    [title |-> title, page_index |-> page_index, level |-> level]

\* The loop of parse_trbk_toc: `left` entries from cursor on.
RECURSIVE toc_from(_, _, _)
toc_from(data, cursor, left) ==
    IF left = 0 THEN [kind |-> "Ok", entries |-> <<>>]
    ELSE Bind(read_string(data, cursor), LAMBDA t :
             IF ~IsOk(t) THEN t
             ELSE IF t.cursor + 4 + 1 + 1 + 2 > Len(data) THEN Err("Decode")
             ELSE Bind(toc_from(data, t.cursor + 8, left - 1), LAMBDA rest :
                      IF IsOk(rest)
                      THEN [kind |-> "Ok",
                            entries |-> <<TocEntry(t.value,
                                                   read_u32(data, t.cursor).value,
                                                   data[t.cursor + 5])>>
                                        \o rest.entries]
                      ELSE rest))

\* size_of::<TrbkTocEntry>() and size_of::<TrbkGlyph>() on a 32-bit target.
TOC_ENTRY_SIZE == 20
GLYPH_SIZE == 28

parse_trbk_toc(data, offset, count) ==
    IF W_gt(offset, Len(data)) THEN Err("Decode")
    ELSE IF ~IsOk(with_capacity(count, TOC_ENTRY_SIZE)) THEN Err("Panic")
    ELSE toc_from(data, W_int(offset), loop_count(count, Len(data)))

\* The loop of parse_glyphs.
RECURSIVE glyphs_from(_, _, _)
glyphs_from(data, cursor, left) ==
    IF left = 0 THEN [kind |-> "Ok", glyphs |-> <<>>]
    ELSE IF cursor + 4 + 1 + 1 + 1 + 2 + 2 + 2 + 4 > Len(data) THEN Err("Decode")
    ELSE Bind(checked_slice(data, cursor + 17, read_u32(data, cursor + 13).value),
              LAMBDA b :
             IF ~IsOk(b) THEN b
             ELSE Bind(glyphs_from(data, b.end, left - 1), LAMBDA rest :
                 IF IsOk(rest)
                 THEN [kind |-> "Ok",
                       glyphs |-> <<[codepoint |-> read_u32(data, cursor).value,
                            style     |-> data[cursor + 5],
                            width     |-> data[cursor + 6],
                            height    |-> data[cursor + 7],
                            x_advance |-> i16_from_le_bytes(data[cursor + 8], data[cursor + 9]),
                            x_offset  |-> i16_from_le_bytes(data[cursor + 10], data[cursor + 11]),
                            y_offset  |-> i16_from_le_bytes(data[cursor + 12], data[cursor + 13]),
                            bitmap    |-> b.bytes]>> \o rest.glyphs]
                 ELSE rest))

parse_glyphs(data, offset, count) ==
    IF W_gt(offset, Len(data)) THEN Err("Decode")
    ELSE IF ~IsOk(with_capacity(count, GLYPH_SIZE)) THEN Err("Panic")
    ELSE glyphs_from(data, W_int(offset), loop_count(count, Len(data)))

\* parse_fixed_header with one error for a wrong magic and an unknown version.
parse_fixed_header_one_error(data) ==
    IF Len(data) < 44 \/ Slice(data, 0, 4) # MAGIC THEN Err("Decode")
    ELSE LET version == data[5]
         IN  IF version # 1 /\ version # 2 THEN Err("Decode")
             ELSE IF version >= 2 /\ ~IsOk(read_u32(data, 44)) THEN Err("Decode")
             ELSE [kind |-> "Ok",
                   version |-> version,
                   header_size |-> read_u16(data, 6).value,
                   screen_width |-> read_u16(data, 8).value,
                   screen_height |-> read_u16(data, 10).value,
                   page_count |-> read_u32(data, 12).value,
                   toc_count |-> read_u32(data, 16).value,
                   page_lut_offset |-> read_u32(data, 20).value,
                   toc_offset |-> read_u32(data, 24).value,
                   page_data_offset |-> read_u32(data, 28).value,
                   glyph_count |-> IF version >= 2 THEN read_u32(data, 40).value ELSE W(0),
                   glyph_table_offset |-> IF version >= 2 THEN read_u32(data, 44).value
                                          ELSE W(0)]

\* parse_trbk, the fixed header: magic, version, and the header fields.
parse_fixed_header(data) ==
    IF Len(data) < 44 \/ Slice(data, 0, 4) # MAGIC THEN Err("Decode")
    ELSE LET version == data[5]
         IN  IF version # 1 /\ version # 2 THEN Err("Unsupported")
             ELSE IF version >= 2 /\ ~IsOk(read_u32(data, 44)) THEN Err("Decode")
             ELSE [kind |-> "Ok",
                   version |-> version,
                   header_size |-> read_u16(data, 6).value,
                   screen_width |-> read_u16(data, 8).value,
                   screen_height |-> read_u16(data, 10).value,
                   page_count |-> read_u32(data, 12).value,
                   toc_count |-> read_u32(data, 16).value,
                   page_lut_offset |-> read_u32(data, 20).value,
                   toc_offset |-> read_u32(data, 24).value,
                   page_data_offset |-> read_u32(data, 28).value,
                   glyph_count |-> IF version >= 2 THEN read_u32(data, 40).value ELSE W(0),
                   glyph_table_offset |-> IF version >= 2 THEN read_u32(data, 44).value
                                          ELSE W(0)]

\* `left` length-prefixed strings from cursor on.
RECURSIVE read_strings(_, _, _)
read_strings(data, cursor, left) ==
    IF left = 0 THEN [kind |-> "Ok", values |-> <<>>, cursor |-> cursor]
    ELSE Bind(read_string(data, cursor), LAMBDA t :
             IF ~IsOk(t) THEN t
             ELSE Bind(read_strings(data, t.cursor, left - 1), LAMBDA rest :
                      IF IsOk(rest)
                      THEN [kind |-> "Ok", values |-> <<t.value>> \o rest.values,
                            cursor |-> rest.cursor]
                      ELSE rest))

\* `left` u16 fields from cursor on.
RECURSIVE read_u16s(_, _, _)
read_u16s(data, cursor, left) ==
    IF left = 0 THEN [kind |-> "Ok", values |-> <<>>, cursor |-> cursor]
    ELSE Bind(read_u16_from(data, cursor), LAMBDA t :
             IF ~IsOk(t) THEN t
             ELSE Bind(read_u16s(data, t.cursor, left - 1), LAMBDA rest :
                      IF IsOk(rest)
                      THEN [kind |-> "Ok", values |-> <<t.value>> \o rest.values,
                            cursor |-> rest.cursor]
                      ELSE rest))

Metadata(strs, char_width, line_height, ascent, margins) ==
    [title |-> strs[1], author |-> strs[2], language |-> strs[3],
     identifier |-> strs[4], font_name |-> strs[5],
     char_width |-> char_width, line_height |-> line_height, ascent |-> ascent,
     margin_left |-> margins[1], margin_right |-> margins[2],
     margin_top |-> margins[3], margin_bottom |-> margins[4]]

\* The legacy fallback: (line_height as i16).saturating_sub((line_height as i16) / 4).
legacy_ascent(line_height) ==
    i16_saturating_sub(as_i16(line_height), div_trunc(as_i16(line_height), 4))

\* The number of header bytes left after line_height from which the header
\* is taken to hold the ascent field.
ASCENT_MIN_REMAINING == 12

\* parse_trbk, the metadata block: five strings, char_width, line_height,
\* then ascent and the margins, or the margins alone (legacy).
parse_metadata(data, version, header_size) ==
    Bind(read_strings(data, IF version >= 2 THEN 48 ELSE 44, 5), LAMBDA s :
        IF ~IsOk(s) THEN s
        ELSE Bind(read_u16s(data, s.cursor, 2), LAMBDA w :
            IF ~IsOk(w) THEN w
            ELSE IF usize_saturating_sub(header_size, w.cursor) >= ASCENT_MIN_REMAINING
            THEN Bind(read_i16_from(data, w.cursor), LAMBDA a :
                     IF ~IsOk(a) THEN a
                     ELSE Bind(read_u16s(data, a.cursor, 4), LAMBDA m :
                         IF ~IsOk(m) THEN m
                         ELSE [kind |-> "Ok", cursor |-> m.cursor,
                               metadata |-> Metadata(s.values, w.values[1],
                                   w.values[2], a.value, m.values)]))
            ELSE Bind(read_u16s(data, w.cursor, 4), LAMBDA m :
                     IF ~IsOk(m) THEN m
                     ELSE [kind |-> "Ok", cursor |-> m.cursor,
                           metadata |-> Metadata(s.values, w.values[1],
                               w.values[2], legacy_ascent(w.values[2]),
                               m.values)])))

\* The page offset index: page_count u32 values at page_lut_offset.
read_page_offsets(data, page_lut_offset, page_count) ==
    [i \in 1..page_count |-> read_u32(data, page_lut_offset + (i - 1) * 4).value]

\* parse_trbk, the end of page idx (0-based): the next page's start, or for
\* the last page the glyph table (version 2, after the page data) or the
\* end of the file.
page_end(h, page_offsets, idx, data_len) ==
    IF idx + 1 < Len(page_offsets)
    THEN usize_add(h.page_data_offset, page_offsets[idx + 2])
    ELSE IF h.version >= 2 /\ W_lt(h.page_data_offset, h.glyph_table_offset)
         THEN [kind |-> "Ok", value |-> h.glyph_table_offset]
         ELSE [kind |-> "Ok", value |-> W(data_len)]

\* parse_trbk, the byte range [start, end) of page idx, checked against the file.
page_range(h, page_offsets, idx, data_len) ==
    Bind(usize_add(h.page_data_offset, page_offsets[idx + 1]), LAMBDA start :
        IF ~IsOk(start) THEN start
        ELSE Bind(page_end(h, page_offsets, idx, data_len), LAMBDA end :
            IF ~IsOk(end) THEN end
            ELSE IF W_gt(start.value, data_len) \/ W_gt(end.value, data_len)
                    \/ W_lt(end.value, start.value)
                 THEN Err("Decode")
                 ELSE [kind |-> "Ok", start |-> W_int(start.value),
                       end |-> W_int(end.value)]))

\* parse_trbk, the loop over the pages from idx on.  `ranges` records the
\* slices data[start..end] the loop took (it is not a field of TrbkBook).
RECURSIVE pages_from(_, _, _, _)
pages_from(data, h, page_offsets, idx) ==
    IF idx >= Len(page_offsets) THEN [kind |-> "Ok", pages |-> <<>>, ranges |-> <<>>]
    ELSE Bind(page_range(h, page_offsets, idx, Len(data)), LAMBDA r :
        IF ~IsOk(r) THEN r
        ELSE Bind(parse_trbk_page_ops(Slice(data, r.start, r.end)), LAMBDA o :
            IF ~IsOk(o) THEN o
            ELSE Bind(pages_from(data, h, page_offsets, idx + 1), LAMBDA rest :
                IF IsOk(rest)
                THEN [kind |-> "Ok",
                      pages |-> <<[ops |-> o.ops]>> \o rest.pages,
                      ranges |-> <<<<r.start, r.end>>>> \o rest.ranges]
                ELSE rest)))

\* parse_trbk, from the page offset index to the end.  In a release build a
\* page_count whose lut_len wrapped past the check cannot be allocated
\* (capacity overflow).
parse_pages_and_glyphs(data, h, meta, toc) ==
    Bind(usize_mul(h.page_count, 4), LAMBDA lut_len :
    IF ~IsOk(lut_len) THEN lut_len
    ELSE Bind(usize_add(h.page_lut_offset, lut_len.value), LAMBDA lut_end :
    IF ~IsOk(lut_end) THEN lut_end
    ELSE IF W_gt(lut_end.value, Len(data)) THEN Err("Decode")
    ELSE IF usize_overflows(W_mul(h.page_count, 4)) THEN Err("Panic")
    ELSE Bind(pages_from(data, h,
                         read_page_offsets(data, W_int(h.page_lut_offset),
                                           W_int(h.page_count)), 0), LAMBDA pgs :
    IF ~IsOk(pgs) THEN pgs
    ELSE Bind(IF h.version >= 2 /\ h.glyph_count # W(0)
              THEN parse_glyphs(data, h.glyph_table_offset, h.glyph_count)
              ELSE [kind |-> "Ok", glyphs |-> <<>>], LAMBDA gl :
    IF ~IsOk(gl) THEN gl
    ELSE [kind |-> "Ok",
          screen_width |-> h.screen_width,
          screen_height |-> h.screen_height,
          pages |-> pgs.pages,
          ranges |-> pgs.ranges,
          metadata |-> meta,
          glyphs |-> gl.glyphs,
          page_count |-> W_int(h.page_count),
          toc |-> toc]))))

parse_trbk(data) ==
    Bind(parse_fixed_header(data), LAMBDA h :
    IF ~IsOk(h) THEN h
    ELSE IF Len(data) < h.header_size \/ h.toc_offset # W(h.header_size)
         THEN Err("Decode")
    ELSE IF h.toc_count # W(0) /\ W_gt(h.toc_offset, Len(data)) THEN Err("Decode")
    ELSE IF W_gt(h.page_lut_offset, Len(data)) THEN Err("Decode")
    ELSE Bind(parse_metadata(data, h.version, h.header_size), LAMBDA m :
    IF ~IsOk(m) THEN m
    ELSE IF m.cursor > Len(data) \/ m.cursor > h.header_size THEN Err("Decode")
    ELSE Bind(IF h.toc_count # W(0)
              THEN parse_trbk_toc(data, h.toc_offset, h.toc_count)
              ELSE [kind |-> "Ok", entries |-> <<>>], LAMBDA toc :
    IF ~IsOk(toc) THEN toc
    ELSE parse_pages_and_glyphs(data, h, m.metadata, toc.entries))))

----------------------------------------------------------------------------
(* The encoder (tools/trusty-book/src/lib.rs): word wrap.                  *)

TextRun(text, style) == [text |-> text, style |-> style]
Regular   == [bold |-> FALSE, italic |-> FALSE]   \* TextStyle::default()
BoldStyle == [bold |-> TRUE, italic |-> FALSE]

style_id_from_style(style) ==
    IF ~style.bold /\ ~style.italic THEN 0
    ELSE IF style.bold /\ ~style.italic THEN 1
    ELSE IF ~style.bold /\ style.italic THEN 2
    ELSE 3

\* build_advance_map: (style, codepoint) -> x_advance, a later glyph of the
\* same key replacing an earlier one.
build_advance_map(gs) ==
    LET keys == {<<gs[i].style, gs[i].codepoint>> : i \in DOMAIN gs}
        last(k) == CHOOSE i \in DOMAIN gs :
                      /\ <<gs[i].style, gs[i].codepoint>> = k
                      /\ \A j \in DOMAIN gs :
                            <<gs[j].style, gs[j].codepoint>> = k => j <= i
    IN  [k \in keys |-> gs[last(k)].x_advance]

\* The advance of one char taken as char_width whatever the glyph table says.
char_advance_fixed(cp, style_id, opts, advance_map) == opts.char_width

\* The advance of one char: the glyph's, or char_width when it has no glyph.
char_advance(cp, style_id, opts, advance_map) ==
    IF <<style_id, cp>> \in DOMAIN advance_map
    THEN advance_map[<<style_id, cp>>]
    ELSE opts.char_width

RECURSIVE advance_sum_from(_, _, _, _, _)
advance_sum_from(text, i, style_id, opts, advance_map) ==
    IF i > Len(text) THEN 0
    ELSE char_advance(text[i], style_id, opts, advance_map)
         + advance_sum_from(text, i + 1, style_id, opts, advance_map)

\* The sum of the advances of the chars of text (for a text of one repeated
\* char, its length times that char's advance).
advance_sum(text, style_id, opts, advance_map) ==
    IF Len(text) > 0 /\ text = Repeat(text[1], Len(text))
    THEN Len(text) * char_advance(text[1], style_id, opts, advance_map)
    ELSE advance_sum_from(text, 1, style_id, opts, advance_map)

measure_token_width(text, style, opts, advance_map) ==
    advance_sum(text, style_id_from_style(style), opts, advance_map)

\* char::is_whitespace (the Unicode White_Space property).
is_whitespace(cp) ==
    \/ cp \in {9, 10, 11, 12, 13, 32, 133, 160, 5760, 8232, 8233, 8239, 8287, 12288}
    \/ (cp >= 8192 /\ cp <= 8202)

RECURSIVE split_from(_, _, _)
split_from(text, i, cur) ==
    IF i > Len(text) THEN (IF cur = <<>> THEN <<>> ELSE <<cur>>)
    ELSE IF is_whitespace(text[i])
         THEN (IF cur = <<>> THEN <<>> ELSE <<cur>>) \o split_from(text, i + 1, <<>>)
         ELSE split_from(text, i + 1, Append(cur, text[i]))

\* str::split_whitespace: the maximal runs of non-whitespace chars, in order.
split_whitespace(text) ==
    IF Len(text) > 0 /\ text = Repeat(text[1], Len(text))
    THEN (IF is_whitespace(text[1]) THEN <<>> ELSE <<text>>)
    ELSE split_from(text, 1, <<>>)

\* str::contains('\n').
contains_newline(text) ==
    IF Len(text) > 0 /\ text = Repeat(text[1], Len(text))
    THEN text[1] = 10
    ELSE \E i \in DOMAIN text : text[i] = 10

RunLine(spine_index, runs) == [spine_index |-> spine_index, runs |-> runs]

\* The state of the loops of wrap_runs.
WrapState(ls, current, current_width) ==
    [lines |-> ls, current |-> current, current_width |-> current_width]

\* wrap_runs, the body of `for token in run.text.split_whitespace()`.
wrap_token(st, token, style, current_spine, opts, advance_map, max_width) ==
    LET token_width == measure_token_width(token, style, opts, advance_map)
        space_width == measure_token_width(<<32>>, style, opts, advance_map)
                       + opts.word_spacing
    IN  IF st.current_width = 0
        THEN WrapState(st.lines, Append(st.current, TextRun(token, style)), token_width)
        ELSE IF st.current_width + space_width + token_width <= max_width
        THEN WrapState(st.lines,
                       st.current \o <<TextRun(<<32>>, style), TextRun(token, style)>>,
                       st.current_width + space_width + token_width)
        ELSE WrapState(Append(st.lines, RunLine(current_spine, st.current)),
                       <<TextRun(token, style)>>, token_width)

RECURSIVE wrap_tokens(_, _, _, _, _, _, _, _)
wrap_tokens(st, tokens, i, style, current_spine, opts, advance_map, max_width) ==
    IF i > Len(tokens) THEN st
    ELSE wrap_tokens(wrap_token(st, tokens[i], style, current_spine, opts,
                                advance_map, max_width),
                     tokens, i + 1, style, current_spine, opts, advance_map, max_width)

\* wrap_runs, the `if run.text.contains('\n')` after the tokens of a run.
wrap_newline(st, run, current_spine) ==
    IF contains_newline(run.text) /\ st.current # <<>>
    THEN WrapState(Append(st.lines, RunLine(current_spine, st.current)), <<>>, 0)
    ELSE st

\* wrap_runs, the body of `for run in &spine.runs`.
wrap_run(st, run, current_spine, opts, advance_map, max_width) ==
    wrap_newline(wrap_tokens(st, split_whitespace(run.text), 1, run.style,
                             current_spine, opts, advance_map, max_width),
                 run, current_spine)

RECURSIVE wrap_spine_runs(_, _, _, _, _, _, _)
wrap_spine_runs(st, rs, i, current_spine, opts, advance_map, max_width) ==
    IF i > Len(rs) THEN st
    ELSE wrap_spine_runs(wrap_run(st, rs[i], current_spine, opts, advance_map, max_width),
                         rs, i + 1, current_spine, opts, advance_map, max_width)

\* wrap_runs, the body of `for spine in runs`: the line being built is kept
\* across the spine boundary.
RECURSIVE wrap_spines(_, _, _, _, _, _)
wrap_spines(st, runs, i, opts, advance_map, max_width) ==
    IF i > Len(runs) THEN st
    ELSE wrap_spines(wrap_spine_runs(st, runs[i].runs, 1, runs[i].spine_index,
                                     opts, advance_map, max_width),
                     runs, i + 1, opts, advance_map, max_width)

wrap_runs(runs, opts, advance_map) ==
    LET max_width == Max(opts.screen_width - opts.margin_x * 2, 1)
        st == wrap_spines(WrapState(<<>>, <<>>, 0), runs, 1, opts, advance_map, max_width)
        current_spine == IF runs = <<>> THEN -1 ELSE runs[Len(runs)].spine_index
    IN  IF st.current # <<>>
        THEN Append(st.lines, RunLine(current_spine, st.current))
        ELSE st.lines

----------------------------------------------------------------------------
(* The encoder: pagination and the spine -> page map.                      *)

NEWLINE == <<10>>   \* the text of the line-break pseudo-run, "\n"

\* paginate_lines, lines_per_page.  margin_y * 2 is a u16 product; the
\* division panics when line_height is 0.
lines_per_page(opts) ==
    IF opts.margin_y * 2 >= U16 /\ overflow_checks THEN Err("Panic")
    ELSE IF opts.line_height = 0 THEN Err("Panic")
    ELSE LET usable_height ==
                 Max(u16_saturating_sub(opts.screen_height, (opts.margin_y * 2) % U16), 1)
         IN  [kind |-> "Ok", value |-> Max(usable_height \div opts.line_height, 1)]

\* The state of the loop of paginate_lines.
PageState(pgs, page_runs, spine_index, line_count) ==
    [pages |-> pgs, page_runs |-> page_runs, spine_index |-> spine_index,
     line_count |-> line_count]

\* paginate_lines without the forced break.
chapter_break_never(st, line) == st

\* paginate_lines, the forced break before a line of another chapter.
chapter_break(st, line) ==
    IF /\ st.spine_index >= 0
       /\ line.spine_index >= 0
       /\ line.spine_index # st.spine_index
       /\ st.page_runs # <<>>
    THEN PageState(Append(st.pages, RunLine(st.spine_index, st.page_runs)), <<>>, -1, 0)
    ELSE st

\* paginate_lines, the body of `for line in lines`.
paginate_line(st0, line, per_page) ==
    LET st == chapter_break(st0, line)
        spine_index == IF st.spine_index < 0 THEN line.spine_index ELSE st.spine_index
        page_runs == st.page_runs \o line.runs \o <<TextRun(NEWLINE, Regular)>>
        line_count == st.line_count + 1
    IN  IF line_count >= per_page
        THEN PageState(Append(st.pages, RunLine(spine_index, page_runs)), <<>>, -1, 0)
        ELSE PageState(st.pages, page_runs, spine_index, line_count)

RECURSIVE paginate_from(_, _, _, _)
paginate_from(st, ls, i, per_page) ==
    IF i > Len(ls) THEN st
    ELSE paginate_from(paginate_line(st, ls[i], per_page), ls, i + 1, per_page)

EMPTY_TEXT == <<40, 101, 109, 112, 116, 121, 41>>   \* "(empty)"

paginate_lines(ls, opts) ==
    LET per_page == lines_per_page(opts)
    IN  IF ~IsOk(per_page) THEN per_page
        ELSE LET st == paginate_from(PageState(<<>>, <<>>, -1, 0), ls, 1, per_page.value)
                 flushed == IF st.page_runs # <<>>
                            THEN Append(st.pages, RunLine(st.spine_index, st.page_runs))
                            ELSE st.pages
             IN  [kind |-> "Ok",
                  pages |-> IF flushed = <<>>
                            THEN <<RunLine(-1, <<TextRun(EMPTY_TEXT, Regular)>>)>>
                            ELSE flushed]

\* A map that gives the last page of a chapter where its first is asked.
compute_spine_page_map_last(pgs, spine_count) ==
    [s1 \in 1..spine_count |->
        LET hits == {i \in DOMAIN pgs : pgs[i].spine_index = s1 - 1}
        IN  IF hits = {} THEN -1
            ELSE (CHOOSE i \in hits : \A j \in hits : i >= j) - 1]

\* compute_spine_page_map: for each spine (0-based spine s at index s + 1)
\* the first page whose spine_index is s, or -1.
compute_spine_page_map(pgs, spine_count) ==
    [s1 \in 1..spine_count |->
        LET hits == {i \in DOMAIN pgs : pgs[i].spine_index = s1 - 1}
        IN  IF hits = {} THEN -1
            ELSE (CHOOSE i \in hits : \A j \in hits : i <= j) - 1]

\* The parts of a BookCache that build_toc_entries reads.
CacheTocEntry(title, level, spine_index) ==
    [title |-> title, level |-> level, spine_index |-> spine_index]

CacheSpineEntry(href) == [href |-> href]

BookCache(spine, toc) == [spine |-> spine, toc |-> toc]

NoCache == BookCache(<<>>, <<>>)

\* build_toc_entries, the loop `for entry in &cache.toc`.
RECURSIVE source_toc_entries(_, _, _)
source_toc_entries(toc, spine_to_page_map, i) ==
    IF i > Len(toc) THEN <<>>
    ELSE LET entry == toc[i]
             rest == source_toc_entries(toc, spine_to_page_map, i + 1)
         IN  IF entry.spine_index < 0 THEN rest
             ELSE IF entry.spine_index >= Len(spine_to_page_map) THEN rest
             ELSE IF spine_to_page_map[entry.spine_index + 1] < 0 THEN rest
             ELSE <<TocEntry(entry.title, spine_to_page_map[entry.spine_index + 1],
                             entry.level)>> \o rest

\* href.split('/').last(): the chars after the last '/'.
RECURSIVE last_segment(_)
last_segment(href) ==
    IF href = <<>> THEN <<>>
    ELSE IF href[Len(href)] = 47 THEN <<>>
    ELSE Append(last_segment(SubSeq(href, 1, Len(href) - 1)), href[Len(href)])

\* build_toc_entries, the loop `for (idx, spine) in cache.spine.iter().enumerate()`.
RECURSIVE spine_toc_entries(_, _, _)
spine_toc_entries(spine, spine_to_page_map, i) ==
    IF i > Len(spine) THEN <<>>
    ELSE LET page_index == IF i <= Len(spine_to_page_map) THEN spine_to_page_map[i] ELSE -1
             rest == spine_toc_entries(spine, spine_to_page_map, i + 1)
         IN  IF page_index < 0 THEN rest
             ELSE <<TocEntry(last_segment(spine[i].href), page_index, 0)>> \o rest

build_toc_entries(book_cache, spine_to_page_map) ==
    LET entries == source_toc_entries(book_cache.toc, spine_to_page_map, 1)
    IN  IF entries = <<>>
        THEN spine_toc_entries(book_cache.spine, spine_to_page_map, 1)
        ELSE entries

\* A Glyph of the converter.
Glyph(cp, style, w, h, adv, xo, yo, bitmap) ==
    [codepoint |-> cp, style |-> style, width |-> w, height |-> h,
     x_advance |-> adv, x_offset |-> xo, y_offset |-> yo, bitmap |-> bitmap]

\* `v as u8`: the low 8 bits.
as_u8(v) == v % 256

\* What font.rasterize gives for one char: the metrics and the coverage
\* bitmap, one sample of 0..255 per pixel, row by row.
Raster(cp, style, width, height, xmin, ymin, advance, coverage) ==
    [codepoint |-> cp, style |-> style, width |-> width, height |-> height,
     xmin |-> xmin, ymin |-> ymin, advance |-> advance, coverage |-> coverage]

\* pack_bitmap, byte k (0-based) of the result: bit 7 - (i % 8) is set for
\* each sample i of the byte that is above 127.
RECURSIVE packed_byte(_, _, _, _)
packed_byte(bitmap, total, k, j) ==
    IF j > 7 THEN 0
    ELSE (IF 8 * k + j < total /\ bitmap[8 * k + j + 1] > 127 THEN 2 ^ (7 - j) ELSE 0)
         + packed_byte(bitmap, total, k, j + 1)

pack_bitmap(bitmap, width, height) ==
    LET total == width * height
    IN  [k1 \in 1..((total + 7) \div 8) |-> packed_byte(bitmap, total, k1 - 1, 0)]

\* build_glyphs, the glyph pushed for one rasterized char.
glyph_of_raster(r) ==
    Glyph(r.codepoint, r.style, as_u8(r.width), as_u8(r.height), r.advance,
          as_i16(r.xmin), as_i16(r.ymin + r.height),
          pack_bitmap(r.coverage, r.width, r.height))

----------------------------------------------------------------------------
(* The encoder: write_trbk.                                                *)

FIXED_HEADER_SIZE == 48   \* 0x30
FONT_NAME == <<102, 111, 110, 116, 100, 117, 101>>   \* "fontdue"

\* write_string: the length as u32, then the bytes.
write_string(text) ==
    LET bytes == as_bytes(text) IN u32_to_le_bytes(Len(bytes)) \o bytes

\* write_trbk, the metadata block.
metadata_bytes(md, opts) ==
    write_string(md.title) \o write_string(md.author) \o write_string(md.language)
    \o write_string(md.identifier) \o write_string(FONT_NAME)
    \o u16_to_le_bytes(opts.char_width) \o u16_to_le_bytes(opts.line_height)
    \o u16_to_le_bytes(opts.ascent)
    \o u16_to_le_bytes(opts.margin_x) \o u16_to_le_bytes(opts.margin_x)
    \o u16_to_le_bytes(opts.margin_y) \o u16_to_le_bytes(opts.margin_y)

RECURSIVE toc_bytes_from(_, _)
toc_bytes_from(entries, i) ==
    IF i > Len(entries) THEN <<>>
    ELSE write_string(entries[i].title) \o u32_to_le_bytes(entries[i].page_index)
         \o <<entries[i].level, 0>> \o u16_to_le_bytes(0)
         \o toc_bytes_from(entries, i + 1)

\* write_trbk, the TOC block.
toc_bytes(entries) == toc_bytes_from(entries, 1)

\* write_trbk, one TextRun record: opcode 0x01, the payload length as u16
\* (`payload.len() as u16`), the payload.
text_run_record(x, baseline, run) ==
    LET payload == u16_to_le_bytes(x) \o u16_to_le_bytes(as_u16(baseline))
                   \o <<style_id_from_style(run.style), 0>> \o as_bytes(run.text)
    IN  <<1>> \o u16_to_le_bytes(as_u16(Len(payload))) \o payload

\* write_trbk, the pen after a run: x.saturating_add(advance as u16) when
\* the advance is positive.
pen_after(x, run, opts, advance_map) ==
    LET advance == advance_sum(run.text, style_id_from_style(run.style), opts, advance_map)
    IN  IF advance > 0 THEN u16_saturating_add(x, as_u16(advance)) ELSE x

\* write_trbk, the body of `for run in &page.runs` from run i on.
RECURSIVE page_bytes_from(_, _, _, _, _, _)
page_bytes_from(runs, i, x, baseline, opts, advance_map) ==
    IF i > Len(runs) THEN <<>>
    ELSE IF runs[i].text = NEWLINE
    THEN page_bytes_from(runs, i + 1, opts.margin_x, baseline + opts.line_height,
                         opts, advance_map)
    ELSE text_run_record(x, baseline, runs[i])
         \o page_bytes_from(runs, i + 1, pen_after(x, runs[i], opts, advance_map),
                            baseline, opts, advance_map)

\* write_trbk, the instruction bytes of one page.
page_bytes(pg, opts, advance_map) ==
    page_bytes_from(pg.runs, 1, opts.margin_x, opts.margin_y + opts.ascent,
                    opts, advance_map)

\* write_trbk, the page loop: the page offset index and the page data.
RECURSIVE page_blocks_from(_, _, _, _, _)
page_blocks_from(pgs, i, page_start, opts, advance_map) ==
    IF i > Len(pgs) THEN [lut |-> <<>>, data |-> <<>>]
    ELSE LET bytes == page_bytes(pgs[i], opts, advance_map)
             rest  == page_blocks_from(pgs, i + 1, page_start + Len(bytes), opts, advance_map)
         IN  [lut |-> u32_to_le_bytes(page_start) \o rest.lut,
              data |-> bytes \o rest.data]

RECURSIVE glyph_table_from(_, _)
glyph_table_from(gs, i) ==
    IF i > Len(gs) THEN <<>>
    ELSE u32_to_le_bytes(gs[i].codepoint)
         \o <<gs[i].style, gs[i].width, gs[i].height>>
         \o u16_to_le_bytes(gs[i].x_advance) \o u16_to_le_bytes(gs[i].x_offset)
         \o u16_to_le_bytes(gs[i].y_offset)
         \o u32_to_le_bytes(Len(gs[i].bitmap)) \o gs[i].bitmap
         \o glyph_table_from(gs, i + 1)

write_glyph_table(gs) == glyph_table_from(gs, 1)

\* write_trbk, header_size: u16 = fixed_header_size + metadata_bytes.len() as u16.
\* The cast truncates; the u16 sum panics on overflow in a debug build and
\* wraps in a release build.
header_size_of(metadata_len) ==
    LET low == as_u16(metadata_len)
    IN  IF FIXED_HEADER_SIZE + low >= U16 /\ overflow_checks THEN Err("Panic")
        ELSE [kind |-> "Ok", value |-> (FIXED_HEADER_SIZE + low) % U16]

\* The version byte write_trbk writes.
WRITTEN_VERSION == 2

\* write_trbk: the bytes of the file.
write_trbk(md, opts, pgs, gs, advance_map, entries) ==
    LET meta == metadata_bytes(md, opts)
        header_size == header_size_of(Len(meta))
    IN  IF ~IsOk(header_size) THEN header_size
        ELSE LET toc == toc_bytes(entries)
                 toc_offset == header_size.value
                 page_lut_offset == toc_offset + Len(toc)
                 blocks == page_blocks_from(pgs, 1, 0, opts, advance_map)
                 page_data_offset == page_lut_offset + Len(blocks.lut)
                 glyph_table_offset == page_data_offset + Len(blocks.data)
             IN  [kind |-> "Ok",
                  bytes |->
                     MAGIC \o <<WRITTEN_VERSION, 0>> \o u16_to_le_bytes(header_size.value)
                     \o u16_to_le_bytes(opts.screen_width)
                     \o u16_to_le_bytes(opts.screen_height)
                     \o u32_to_le_bytes(Len(pgs)) \o u32_to_le_bytes(Len(entries))
                     \o u32_to_le_bytes(page_lut_offset) \o u32_to_le_bytes(toc_offset)
                     \o u32_to_le_bytes(page_data_offset)
                     \o u32_to_le_bytes(0) \o u32_to_le_bytes(0)
                     \o u32_to_le_bytes(Len(gs)) \o u32_to_le_bytes(glyph_table_offset)
                     \o meta
                     \o (IF Len(entries) # 0 THEN toc ELSE <<>>)
                     \o blocks.lut \o blocks.data \o write_glyph_table(gs)]

----------------------------------------------------------------------------
(* The streaming reader of the device (x4/src/image_source.rs).  The       *)
(* device is a 32-bit target: usize is u32 there.  File positions and read *)
(* lengths are kept as limbs.                                              *)

\* One seek to pos and read_exact of n bytes: the bytes, or Decode when the
\* file ends first (read returns 0).
file_read(f, pos, n) ==
    IF n = W(0) THEN [kind |-> "Ok", bytes |-> <<>>]
    ELSE Bind(W_add(pos, n), LAMBDA end :
             IF W_leq(end, Len(f))
             THEN [kind |-> "Ok", bytes |-> Slice(f, W_int(pos), W_int(end))]
             ELSE Err("Decode"))

\* The log entry of a read: where it was asked and how many bytes.
ReadLog(pos, n) == [pos |-> pos, len |-> n]

\* vec![0u8; len]: a length above isize::MAX panics (capacity overflow).
vec_u8(len) == IF W_small(len) THEN [kind |-> "Ok"] ELSE Err("Panic")

read_u16_le(data, offset) == read_u16(data, offset)
read_u32_le(data, offset) == read_u32(data, offset)

read_i16_le(data, offset) ==
    IF offset + 2 > Len(data) THEN Err("Decode")
    ELSE [kind |-> "Ok", value |-> i16_from_le_bytes(data[offset + 1], data[offset + 2])]

\* read_string of image_source.rs: as in trbk.rs, with usize = u32.
x4_read_string(data, cursor) ==
    Bind(read_u32_le(data, cursor), LAMBDA l :
        IF ~IsOk(l) THEN l
        ELSE Bind(W_add(W(cursor + 4), l.value), LAMBDA end :
            IF end[1] >= U16 THEN Err("Panic")
            ELSE IF W_gt(end, Len(data)) THEN Err("Decode")
            ELSE Bind(from_utf8(Slice(data, cursor + 4, W_int(end))), LAMBDA t :
                IF t.ok
                THEN [kind |-> "Ok", value |-> t.text, cursor |-> W_int(end)]
                ELSE Err("Decode"))))

RECURSIVE x4_read_strings(_, _, _)
x4_read_strings(data, cursor, left) ==
    IF left = 0 THEN [kind |-> "Ok", values |-> <<>>, cursor |-> cursor]
    ELSE Bind(x4_read_string(data, cursor), LAMBDA t :
             IF ~IsOk(t) THEN t
             ELSE Bind(x4_read_strings(data, t.cursor, left - 1), LAMBDA rest :
                      IF IsOk(rest)
                      THEN [kind |-> "Ok", values |-> <<t.value>> \o rest.values,
                            cursor |-> rest.cursor]
                      ELSE rest))

\* open_trbk, the fixed header, from the first 0x30 bytes of the file.
x4_fixed_header(header) ==
    IF Slice(header, 0, 4) # MAGIC THEN Err("Decode")
    ELSE LET version == header[5]
         IN  IF version # 1 /\ version # 2 THEN Err("Unsupported")
             ELSE [kind |-> "Ok",
                   version |-> version,
                   header_size |-> read_u16_le(header, 6).value,
                   screen_width |-> read_u16_le(header, 8).value,
                   screen_height |-> read_u16_le(header, 10).value,
                   page_count |-> read_u32_le(header, 12).value,
                   toc_count |-> read_u32_le(header, 16).value,
                   page_lut_offset |-> read_u32_le(header, 20).value,
                   toc_offset |-> read_u32_le(header, 24).value,
                   page_data_offset |-> read_u32_le(header, 28).value,
                   glyph_count |->
                       IF version >= 2 THEN read_u32_le(header, 40).value ELSE W(0),
                   glyph_table_offset |->
                       IF version >= 2 THEN read_u32_le(header, 44).value ELSE W(0)]

\* open_trbk, the metadata block read from header_buf (the first
\* header_size bytes of the file): the ascent field is always read.
x4_metadata(header_buf, version) ==
    Bind(x4_read_strings(header_buf, IF version >= 2 THEN 48 ELSE 44, 5), LAMBDA s :
        IF ~IsOk(s) THEN s
        ELSE Bind(read_u16s(header_buf, s.cursor, 2), LAMBDA w :
            IF ~IsOk(w) THEN w
            ELSE Bind(read_i16_le(header_buf, w.cursor), LAMBDA a :
                IF ~IsOk(a) THEN a
                ELSE Bind(read_u16s(header_buf, w.cursor + 2, 4), LAMBDA m :
                    IF ~IsOk(m) THEN m
                    ELSE [kind |-> "Ok",
                          metadata |-> Metadata(s.values, w.values[1],
                              w.values[2], a.value, m.values)]))))

\* open_trbk, the TOC loop: `left` entries read from file position pos on.
RECURSIVE x4_toc_from(_, _, _)
x4_toc_from(f, pos, left) ==
    IF left = 0 THEN [kind |-> "Ok", entries |-> <<>>, log |-> <<>>]
    ELSE Bind(file_read(f, pos, W(4)), LAMBDA len_buf :
    IF ~IsOk(len_buf) THEN [kind |-> "Decode", log |-> <<ReadLog(pos, W(4))>>]
    ELSE Bind(read_u32_le(len_buf.bytes, 0).value, LAMBDA title_len :
    IF ~IsOk(vec_u8(title_len)) THEN [kind |-> "Panic", log |-> <<ReadLog(pos, W(4))>>]
    ELSE Bind(file_read(f, W_add(pos, W(4)), title_len), LAMBDA title_buf :
    Bind(<<ReadLog(pos, W(4)), ReadLog(W_add(pos, W(4)), title_len)>>, LAMBDA log1 :
    IF ~IsOk(title_buf) THEN [kind |-> "Decode", log |-> log1]
    ELSE Bind(from_utf8(title_buf.bytes), LAMBDA t :
    IF ~t.ok THEN [kind |-> "Decode", log |-> log1]
    ELSE Bind(W_add(W_add(pos, W(4)), title_len), LAMBDA at :
    Bind(file_read(f, at, W(8)), LAMBDA entry_buf :
    Bind(Append(log1, ReadLog(at, W(8))), LAMBDA log2 :
    IF ~IsOk(entry_buf) THEN [kind |-> "Decode", log |-> log2]
    ELSE Bind(x4_toc_from(f, W_add(at, W(8)), left - 1), LAMBDA rest :
    IF IsOk(rest)
    THEN [kind |-> "Ok",
          entries |-> <<TocEntry(t.text, read_u32_le(entry_buf.bytes, 0).value,
                                 entry_buf.bytes[5])>> \o rest.entries,
          log |-> log2 \o rest.log]
    ELSE [kind |-> rest.kind, log |-> log2 \o rest.log])))))))))

\* open_trbk, the glyph loop: `left` glyphs read from file position pos on.
RECURSIVE x4_glyphs_from(_, _, _)
x4_glyphs_from(f, pos, left) ==
    IF left = 0 THEN [kind |-> "Ok", glyphs |-> <<>>, log |-> <<>>]
    ELSE Bind(file_read(f, pos, W(17)), LAMBDA header :
    Bind(<<ReadLog(pos, W(17))>>, LAMBDA log0 :
    IF ~IsOk(header) THEN [kind |-> "Decode", log |-> log0]
    ELSE Bind(header.bytes, LAMBDA hb :
    Bind(u32_from_le_bytes(hb[14], hb[15], hb[16], hb[17]), LAMBDA bitmap_len :
    IF ~IsOk(vec_u8(bitmap_len)) THEN [kind |-> "Panic", log |-> log0]
    ELSE Bind(file_read(f, W_add(pos, W(17)), bitmap_len), LAMBDA bitmap :
    Bind(Append(log0, ReadLog(W_add(pos, W(17)), bitmap_len)), LAMBDA log1 :
    IF ~IsOk(bitmap) THEN [kind |-> "Decode", log |-> log1]
    ELSE Bind(x4_glyphs_from(f, W_add(W_add(pos, W(17)), bitmap_len), left - 1),
              LAMBDA rest :
    IF IsOk(rest)
    THEN [kind |-> "Ok",
          glyphs |-> <<[codepoint |-> u32_from_le_bytes(hb[1], hb[2], hb[3], hb[4]),
                        style     |-> hb[5],
                        width     |-> hb[6],
                        height    |-> hb[7],
                        x_advance |-> i16_from_le_bytes(hb[8], hb[9]),
                        x_offset  |-> i16_from_le_bytes(hb[10], hb[11]),
                        y_offset  |-> i16_from_le_bytes(hb[12], hb[13]),
                        bitmap    |-> bitmap.bytes]>> \o rest.glyphs,
          log |-> log1 \o rest.log]
    ELSE [kind |-> rest.kind, log |-> log1 \o rest.log])))))))

\* open_trbk, the page offset index: lut_len = page_count * 4 is a usize
\* (u32) product; after a wrapped product the offsets cannot be allocated
\* (capacity overflow).
x4_page_offsets(f, h) ==
    Bind(W_mul(h.page_count, 4), LAMBDA exact :
    Bind(W_wrap32(exact), LAMBDA lut_len :
    IF exact[1] >= U16 /\ overflow_checks THEN [kind |-> "Panic", log |-> <<>>]
    ELSE IF ~IsOk(vec_u8(lut_len)) THEN [kind |-> "Panic", log |-> <<>>]
    ELSE Bind(file_read(f, h.page_lut_offset, lut_len), LAMBDA lut :
    Bind(<<ReadLog(h.page_lut_offset, lut_len)>>, LAMBDA log :
    IF ~IsOk(lut) THEN [kind |-> "Decode", log |-> log]
    ELSE IF exact[1] >= U16 THEN [kind |-> "Panic", log |-> log]
    ELSE [kind |-> "Ok", log |-> log,
          offsets |-> read_page_offsets(lut.bytes, 0, W_int(h.page_count))]))))

NoSession == [open |-> FALSE]

\* open_trbk from the metadata on: the result and the reads made.
x4_open_body(f, h, log0) ==
    Bind(file_read(f, W(0), W(h.header_size)), LAMBDA header_buf :
    Bind(Append(log0, ReadLog(W(0), W(h.header_size))), LAMBDA log1 :
    IF ~IsOk(header_buf) THEN [kind |-> "Decode", log |-> log1]
    ELSE Bind(x4_metadata(header_buf.bytes, h.version), LAMBDA m :
    IF ~IsOk(m) THEN [kind |-> m.kind, log |-> log1]
    ELSE Bind(x4_toc_from(f, h.toc_offset, loop_count(h.toc_count, Len(f))), LAMBDA toc :
    Bind(log1 \o toc.log, LAMBDA log2 :
    IF ~IsOk(toc) THEN [kind |-> toc.kind, log |-> log2]
    ELSE Bind(x4_page_offsets(f, h), LAMBDA offs :
    Bind(log2 \o offs.log, LAMBDA log3 :
    IF ~IsOk(offs) THEN [kind |-> offs.kind, log |-> log3]
    ELSE Bind(x4_glyphs_from(f, h.glyph_table_offset,
                             loop_count(h.glyph_count, Len(f))), LAMBDA gl :
    Bind(log3 \o gl.log, LAMBDA log4 :
    IF ~IsOk(gl) THEN [kind |-> gl.kind, log |-> log4]
    ELSE [kind |-> "Ok", log |-> log4,
          page_offsets |-> offs.offsets,
          page_data_offset |-> h.page_data_offset,
          glyph_table_offset |-> h.glyph_table_offset,
          info |-> [screen_width |-> h.screen_width,
                    screen_height |-> h.screen_height,
                    page_count |-> W_int(h.page_count),
                    metadata |-> m.metadata,
                    glyphs |-> gl.glyphs,
                    toc |-> toc.entries]])))))))))

\* open_trbk: the result (kind, and info when Ok), the reads made, and the
\* stream state to store when Ok.
open_trbk(f) ==
    Bind(file_read(f, W(0), W(48)), LAMBDA header :
    Bind(<<ReadLog(W(0), W(48))>>, LAMBDA log0 :
    IF ~IsOk(header) THEN [kind |-> "Decode", log |-> log0]
    ELSE Bind(x4_fixed_header(header.bytes), LAMBDA h :
    IF ~IsOk(h) THEN [kind |-> h.kind, log |-> log0]
    ELSE IF h.toc_count # W(0) /\ h.toc_offset # W(h.header_size)
    THEN [kind |-> "Decode", log |-> log0]
    ELSE x4_open_body(f, h, log0))))

\* trbk_page, the end of the page's bytes.
x4_page_end(state, page_index) ==
    IF page_index + 1 < Len(state.page_offsets)
    THEN u32_add(state.page_data_offset, state.page_offsets[page_index + 2])
    ELSE [kind |-> "Ok", value |-> state.glyph_table_offset]

\* A trbk_page that reports a read error where no book is open.
trbk_page_io_when_closed(f, state, page_index) ==
    IF ~state.open THEN [kind |-> "Io", log |-> <<>>]
    ELSE IF page_index >= Len(state.page_offsets) THEN [kind |-> "Decode", log |-> <<>>]
    ELSE Bind(u32_add(state.page_data_offset, state.page_offsets[page_index + 1]),
              LAMBDA start :
    IF ~IsOk(start) THEN [kind |-> "Panic", log |-> <<>>]
    ELSE Bind(x4_page_end(state, page_index), LAMBDA end :
    IF ~IsOk(end) THEN [kind |-> "Panic", log |-> <<>>]
    ELSE IF W_lt(end.value, start.value) THEN [kind |-> "Decode", log |-> <<>>]
    ELSE Bind(W_sub(end.value, start.value), LAMBDA len :
    IF ~IsOk(vec_u8(len)) THEN [kind |-> "Panic", log |-> <<>>]
    ELSE Bind(file_read(f, start.value, len), LAMBDA buf :
    Bind(<<ReadLog(start.value, len)>>, LAMBDA log :
    IF ~IsOk(buf) THEN [kind |-> "Decode", log |-> log]
    ELSE Bind(parse_trbk_page_ops(buf.bytes), LAMBDA o :
    IF ~IsOk(o) THEN [kind |-> o.kind, log |-> log]
    ELSE [kind |-> "Ok", log |-> log, ops |-> o.ops]))))))

\* trbk_page: the page, or the error, and the read made.
trbk_page(f, state, page_index) ==
    IF ~state.open THEN [kind |-> "Decode", log |-> <<>>]
    ELSE IF page_index >= Len(state.page_offsets) THEN [kind |-> "Decode", log |-> <<>>]
    ELSE Bind(u32_add(state.page_data_offset, state.page_offsets[page_index + 1]),
              LAMBDA start :
    IF ~IsOk(start) THEN [kind |-> "Panic", log |-> <<>>]
    ELSE Bind(x4_page_end(state, page_index), LAMBDA end :
    IF ~IsOk(end) THEN [kind |-> "Panic", log |-> <<>>]
    ELSE IF W_lt(end.value, start.value) THEN [kind |-> "Decode", log |-> <<>>]
    ELSE Bind(W_sub(end.value, start.value), LAMBDA len :
    IF ~IsOk(vec_u8(len)) THEN [kind |-> "Panic", log |-> <<>>]
    ELSE Bind(file_read(f, start.value, len), LAMBDA buf :
    Bind(<<ReadLog(start.value, len)>>, LAMBDA log :
    IF ~IsOk(buf) THEN [kind |-> "Decode", log |-> log]
    ELSE Bind(parse_trbk_page_ops(buf.bytes), LAMBDA o :
    IF ~IsOk(o) THEN [kind |-> o.kind, log |-> log]
    ELSE [kind |-> "Ok", log |-> log, ops |-> o.ops]))))))

----------------------------------------------------------------------------
(* The book renderer of the viewer (core/src/application.rs).              *)

I32_MAX == 2147483647

\* a + b in i32 for a in range and b >= -32768: the sum, or on overflow a
\* panic in a build with overflow checks and the wrapped sum without.
i32_add(a, b) ==
    IF b <= 0 \/ a <= I32_MAX - b THEN [kind |-> "Ok", value |-> a + b]
    ELSE IF overflow_checks THEN Err("Panic")
    ELSE [kind |-> "Ok", value |-> ((a - I32_MAX) + (b - I32_MAX)) - 2]

\* find_glyph: the index of the first glyph of that style and codepoint, or 0.
find_glyph(gs, style, codepoint) ==
    LET hits == { i \in DOMAIN gs : gs[i].style = style /\ gs[i].codepoint = W(codepoint) }
    IN  IF hits = {} THEN 0 ELSE CHOOSE i \in hits : \A j \in hits : i <= j

\* Bit idx of a packed bitmap, most significant bit first; 0 beyond its end.
bitmap_bit(bitmap, idx) ==
    LET byte == idx \div 8
        bit  == 7 - (idx % 8)
    IN  IF byte < Len(bitmap) THEN (bitmap[byte + 1] \div (2 ^ bit)) % 2 ELSE 0

\* draw_glyph: the pixels given to set_pixel.
draw_glyph(glyph, origin_x, baseline) ==
    IF glyph.width = 0 \/ glyph.height = 0 THEN {}
    ELSE { <<origin_x + glyph.x_offset + col, (baseline - glyph.y_offset) + row>> :
             <<row, col>> \in
                 { rc \in (0..(glyph.height - 1)) \X (0..(glyph.width - 1)) :
                     bitmap_bit(glyph.bitmap, rc[1] * glyph.width + rc[2]) = 1 } }

\* What drawing one character did: the pen before and after, the pixels
\* set from a glyph bitmap, and whether the character was handed to the
\* built-in font instead.
DrawStep(ch, at, pen, pixels, builtin) ==
    [ch |-> ch, at |-> at, pen |-> pen, pixels |-> pixels, builtin |-> builtin]

\* The character pitch of the built-in font FONT_10X20.
FONT_10X20_WIDTH == 10

\* Text::new(text, Point::new(x, y), fallback).draw(buffers): the characters
\* are drawn by the built-in font at its own pitch; '\n' starts a new line at x.
RECURSIVE builtin_text_from(_, _, _, _)
builtin_text_from(text, i, x, pen_x) ==
    IF i > Len(text) THEN <<>>
    ELSE LET next == IF text[i] = 10 THEN x ELSE pen_x + FONT_10X20_WIDTH
         IN  <<DrawStep(text[i], pen_x, next, {}, TRUE)>>
             \o builtin_text_from(text, i + 1, x, next)

\* draw_trbk_text, the loop over text.chars() from character i on.
RECURSIVE glyph_text_from(_, _, _, _, _, _)
glyph_text_from(b, text, i, style, pen_x, baseline) ==
    IF i > Len(text) THEN [kind |-> "Ok", steps |-> <<>>]
    ELSE IF text[i] = 13 \/ text[i] = 10
    THEN Bind(glyph_text_from(b, text, i + 1, style, pen_x, baseline), LAMBDA rest :
             [kind |-> rest.kind,
              steps |-> <<DrawStep(text[i], pen_x, pen_x, {}, FALSE)>> \o rest.steps])
    ELSE Bind(find_glyph(b.glyphs, style, text[i]), LAMBDA g :
         Bind(i32_add(pen_x, IF g # 0 THEN b.glyphs[g].x_advance
                             ELSE b.metadata.char_width), LAMBDA next :
         Bind(IF g # 0 THEN draw_glyph(b.glyphs[g], pen_x, baseline) ELSE {}, LAMBDA px :
         IF ~IsOk(next)
         THEN [kind |-> "Panic", steps |-> <<DrawStep(text[i], pen_x, pen_x, px, FALSE)>>]
         ELSE Bind(glyph_text_from(b, text, i + 1, style, next.value, baseline),
                   LAMBDA rest :
             [kind |-> rest.kind,
              steps |-> <<DrawStep(text[i], pen_x, next.value, px, FALSE)>>
                        \o rest.steps]))))

\* draw_trbk_text: the result and what was drawn, character by character.
draw_trbk_text(b, x, y, style, text) ==
    IF b.glyphs = <<>>
    THEN [kind |-> "Ok", steps |-> builtin_text_from(text, 1, x, x)]
    ELSE glyph_text_from(b, text, 1, style, x, y)

\* draw_book, the loop over page.ops from op i on.
RECURSIVE draw_ops_from(_, _, _)
draw_ops_from(b, page_ops, i) ==
    IF i > Len(page_ops) THEN [kind |-> "Ok", runs |-> <<>>]
    ELSE Bind(draw_trbk_text(b, page_ops[i].x, page_ops[i].y, page_ops[i].style,
                             page_ops[i].text), LAMBDA r :
         IF ~IsOk(r) THEN [kind |-> r.kind, runs |-> <<r.steps>>]
         ELSE Bind(draw_ops_from(b, page_ops, i + 1), LAMBDA rest :
             [kind |-> rest.kind, runs |-> <<r.steps>> \o rest.runs]))

----------------------------------------------------------------------------
(* Inputs.                                                                 *)

MaxSpines == 2        \* chapters of a book
MaxPageIndex == 3     \* page indices asked of trbk_page: 0..MaxPageIndex

None == [kind |-> "None"]

\* The builds and targets: (overflow_checks, usize_bits).
Builds == {<<TRUE, 64>>, <<FALSE, 64>>, <<TRUE, 32>>, <<FALSE, 32>>}

\* A chapter's runs, written with 0 for the chapter's own letter, so that
\* the chapter a token comes from can be read off the token.
ChapterPatterns ==
    { <<TextRun(<<0>>, Regular)>>,                                   \* "x"
      <<TextRun(<<0, 32, 0>>, Regular)>>,                            \* "x x"
      <<TextRun(<<0, 10>>, Regular), TextRun(<<0>>, Regular)>>,      \* "x\n", "x"
      <<TextRun(<<32>>, Regular)>>,                                  \* " "
      <<TextRun(<<0, 233>>, BoldStyle)>> }                           \* "xé" bold

Letter(c) == 97 + c   \* chapter 0 writes 'a', chapter 1 'b', ...

Instantiate(pattern, c) ==
    [i \in DOMAIN pattern |->
        TextRun([j \in DOMAIN pattern[i].text |->
                    IF pattern[i].text[j] = 0 THEN Letter(c) ELSE pattern[i].text[j]],
                pattern[i].style)]

\* The books of n chapters: chapter c (0-based) has spine_index c.
Books(n) ==
    { [c1 \in 1..n |-> [spine_index |-> c1 - 1, runs |-> Instantiate(ps[c1], c1 - 1)]] :
        ps \in [1..n -> ChapterPatterns] }

\* A token so long that its record's payload (6 bytes and the text) is 65536 bytes.
BigToken == Repeat(97, U16 - 6)
BigBook == <<[spine_index |-> 0, runs |-> <<TextRun(BigToken, Regular)>>]>>

SpineInputs == UNION {Books(n) : n \in 0..MaxSpines}

RenderOptions(sw, sh, mx, my, lh, cw, asc, ws) ==
    [screen_width |-> sw, screen_height |-> sh, margin_x |-> mx, margin_y |-> my,
     line_height |-> lh, char_width |-> cw, ascent |-> asc, word_spacing |-> ws]

DefaultOptions == RenderOptions(480, 800, 16, 60, 20, 10, 14, 2)

OptionInputs ==
    { DefaultOptions,
      RenderOptions(40, 100, 5, 30, 20, 10, 14, 2),   \* 30 wide, 2 lines per page
      RenderOptions(40, 100, 5, 40, 20, 10, 17, 2),   \* 30 wide, 1 line per page
      RenderOptions(480, 800, 16, 60, 0, 10, 14, 2) } \* line_height 0

BookMetadata(title, author, language, identifier) ==
    [title |-> title, author |-> author, language |-> language, identifier |-> identifier]

SmallMetadata == BookMetadata(<<84>>, <<65>>, <<101, 110>>, <<105, 100>>)
\* A title of 65536 bytes: the metadata block is longer than a u16 can say.
BigMetadata == BookMetadata(Repeat(97, U16), <<65>>, <<101, 110>>, <<105, 100>>)

MetadataInputs == {SmallMetadata, BookMetadata(<<233>>, <<>>, <<>>, <<>>)}

GlyphInputs == { <<>>, <<Glyph(97, 0, 1, 1, 7, 0, -1, <<128>>)>> }

TocInputs ==
    { <<>>,
      <<TocEntry(<<99, 49>>, 0, 0)>>,
      <<TocEntry(<<233>>, 0, 1), TocEntry(<<98>>, 1, 0)>> }

OneChapter == <<[spine_index |-> 0, runs |-> <<TextRun(<<97>>, Regular)>>]>>

\* The inputs of a conversion: the text varies with the layout, the
\* container's strings and tables vary on a small book, and two books
\* carry a text or a title too long for a 16-bit length.
ConversionInputs ==
    { [runs |-> r, opts |-> o, md |-> SmallMetadata, gs |-> g, toc |-> <<>>] :
        r \in SpineInputs, o \in OptionInputs, g \in GlyphInputs }
    \cup
    { [runs |-> r, opts |-> DefaultOptions, md |-> m, gs |-> g, toc |-> t] :
        r \in Books(1), m \in MetadataInputs, g \in GlyphInputs, t \in TocInputs }
    \cup
    { [runs |-> BigBook, opts |-> DefaultOptions, md |-> SmallMetadata,
       gs |-> <<>>, toc |-> <<>>],
      [runs |-> OneChapter, opts |-> DefaultOptions, md |-> BigMetadata,
       gs |-> <<>>, toc |-> <<TocEntry(<<99, 49>>, 0, 0)>>] }

----------------------------------------------------------------------------
(* The conversion pipeline (convert_epub_to_trbk_multi) and the decoders.  *)

\* Application::new, with the entries refreshed: the menu, nothing drawn yet.
NoApp ==
    [state |-> "Menu", current_book |-> None, current_page |-> 0,
     current_page_ops |-> None, toc_selected |-> 0, error_message |-> None,
     dirty |-> TRUE, loop |-> "update"]

\* The display buffers before the first draw.
Blank == [view |-> "none"]

Init ==
    /\ pc = "input"
    /\ \E b \in Builds : overflow_checks = b[1] /\ usize_bits = b[2]
    /\ \E c \in ConversionInputs :
          /\ spine_runs = c.runs
          /\ options = c.opts
          /\ metadata = c.md
          /\ glyphs = c.gs
          /\ toc_entries = c.toc
          /\ cache = NoCache
          /\ rasters = <<>>
    /\ lines = <<>>
    /\ pages = <<>>
    /\ spine_to_page = <<>>
    /\ file = <<>>
    /\ book = None
    /\ trbk = NoSession
    /\ info = None
    /\ page = None
    /\ io_log = <<>>
    /\ records = <<>>
    /\ stream = <<>>
    /\ ops = None
    /\ app = NoApp
    /\ screen = Blank

encoder_inputs == <<overflow_checks, usize_bits, spine_runs, options, metadata, glyphs,
                    toc_entries, cache, rasters>>
decoder_state == <<book, trbk, info, page, io_log>>
ops_state == <<records, stream, ops>>

viewer_state == <<app, screen>>

\* let lines = wrap_runs(&spine_runs, &options, &advance_map);
Wrap ==
    /\ pc = "input"
    /\ lines' = wrap_runs(spine_runs, options, build_advance_map(glyphs))
    /\ pc' = "wrapped"
    /\ UNCHANGED <<encoder_inputs, pages, spine_to_page, file, decoder_state, ops_state, viewer_state>>

\* let pages = paginate_lines(&lines, &options);
Paginate ==
    /\ pc = "wrapped"
    /\ LET r == paginate_lines(lines, options)
       IN  IF IsOk(r)
           THEN pages' = r.pages /\ pc' = "paginated"
           ELSE pages' = pages /\ pc' = "panicked"
    /\ UNCHANGED <<encoder_inputs, lines, spine_to_page, file, decoder_state, ops_state, viewer_state>>

\* let spine_to_page = compute_spine_page_map(&pages, cache.spine.len());
MapSpines ==
    /\ pc = "paginated"
    /\ spine_to_page' = compute_spine_page_map(pages, Len(spine_runs))
    /\ pc' = "mapped"
    /\ UNCHANGED <<encoder_inputs, lines, pages, file, decoder_state, ops_state, viewer_state>>

\* write_trbk(&output, &metadata, &options, &pages, &glyphs, &advance_map, &toc_entries)?;
\* File::create has emptied the file when write_trbk panics.
WriteTrbk ==
    /\ pc = "mapped"
    /\ LET r == write_trbk(metadata, options, pages, glyphs,
                           build_advance_map(glyphs), toc_entries)
       IN  IF IsOk(r)
           THEN file' = r.bytes /\ pc' = "written"
           ELSE file' = <<>> /\ pc' = "panicked"
    /\ UNCHANGED <<encoder_inputs, lines, pages, spine_to_page, decoder_state, ops_state, viewer_state>>

\* load_trbk: parse_trbk(&data) on the whole file.
ParseTrbk ==
    /\ pc = "written"
    /\ book = None
    /\ book' = parse_trbk(file)
    /\ UNCHANGED <<pc, encoder_inputs, lines, pages, spine_to_page, file, trbk, info,
                   page, io_log, ops_state, viewer_state>>

\* SdImageSource::open_trbk: the session is replaced only on success.
OpenTrbk ==
    /\ pc = "written"
    /\ LET r == open_trbk(file)
       IN  /\ io_log' = r.log
           /\ IF IsOk(r)
              THEN /\ info' = [kind |-> "Ok", info |-> r.info]
                   /\ trbk' = [open |-> TRUE,
                               page_offsets |-> r.page_offsets,
                               page_data_offset |-> r.page_data_offset,
                               glyph_table_offset |-> r.glyph_table_offset,
                               info |-> r.info]
              ELSE /\ info' = Err(r.kind)
                   /\ trbk' = trbk
    /\ page' = None
    /\ UNCHANGED <<pc, encoder_inputs, lines, pages, spine_to_page, file, book, ops_state, viewer_state>>

\* SdImageSource::trbk_page(page_index).
TrbkPage(page_index) ==
    /\ pc = "written"
    /\ LET r == trbk_page(file, trbk, page_index)
       IN  /\ io_log' = r.log
           /\ page' = IF IsOk(r)
                      THEN [kind |-> "Ok", index |-> page_index, ops |-> r.ops]
                      ELSE [kind |-> r.kind, index |-> page_index]
    /\ UNCHANGED <<pc, encoder_inputs, lines, pages, spine_to_page, file, book, trbk,
                   info, ops_state, viewer_state>>

\* SdImageSource::close_trbk.
CloseTrbk ==
    /\ pc = "written"
    /\ trbk.open
    /\ trbk' = NoSession
    /\ UNCHANGED <<pc, encoder_inputs, lines, pages, spine_to_page, file, book, info,
                   page, io_log, ops_state, viewer_state>>

----------------------------------------------------------------------------
(* The book viewer (core/src/application.rs): Application::update and      *)
(* Application::draw, called in turn by the main loop, on one .trbk entry. *)

\* The value of `page` after trbk_page(page_index) returned r.
PageResult(r, page_index) ==
    IF IsOk(r) THEN [kind |-> "Ok", index |-> page_index, ops |-> r.ops]
    ELSE [kind |-> r.kind, index |-> page_index]

\* self.source.trbk_page(i).ok()
PageOps(r) == IF IsOk(r) THEN [kind |-> "Some", ops |-> r.ops] ELSE None

\* set_error(err)
set_error(a, err) == [a EXCEPT !.error_message = err, !.state = "Error", !.dirty = TRUE]

\* find_toc_selection: the last entry at or before page, among the leading
\* entries that are.
RECURSIVE find_toc_selection_from(_, _, _, _)
find_toc_selection_from(toc, pg, idx, selected) ==
    IF idx > Len(toc) THEN selected
    ELSE IF W_leq(toc[idx].page_index, pg)
         THEN find_toc_selection_from(toc, pg, idx + 1, idx - 1)
         ELSE selected

find_toc_selection(b, pg) == find_toc_selection_from(b.toc, pg, 1, 0)

\* A panic ends the program.
Panicked(a) == [a EXCEPT !.state = "Panicked"]

\* update() has returned; draw() is next.
ToDraw(a) == [a EXCEPT !.loop = "draw"]

Updating == pc = "written" /\ app.loop = "update"

\* update() with no button pressed.
NoButton ==
    /\ Updating
    /\ app.state # "Panicked"
    /\ app' = ToDraw(app)
    /\ UNCHANGED <<pc, encoder_inputs, lines, pages, spine_to_page, file, decoder_state,
                   ops_state, screen>>

\* Menu, Confirm on the .trbk entry: open_selected.
OpenSelected ==
    /\ Updating
    /\ app.state = "Menu"
    /\ LET r == open_trbk(file)
       IN  IF IsOk(r)
           THEN LET session == [open |-> TRUE,
                                page_offsets |-> r.page_offsets,
                                page_data_offset |-> r.page_data_offset,
                                glyph_table_offset |-> r.glyph_table_offset,
                                info |-> r.info]
                    p == trbk_page(file, session, 0)
                IN  /\ trbk' = session
                    /\ info' = [kind |-> "Ok", info |-> r.info]
                    /\ page' = PageResult(p, 0)
                    /\ io_log' = p.log
                    /\ app' = IF p.kind = "Panic" THEN Panicked(app)
                              ELSE ToDraw([app EXCEPT
                                       !.current_book = [kind |-> "Some", info |-> r.info],
                                       !.current_page = 0,
                                       !.current_page_ops = PageOps(p),
                                       !.state = "BookViewing",
                                       !.dirty = TRUE])
           ELSE /\ trbk' = trbk
                /\ info' = Err(r.kind)
                /\ page' = None
                /\ io_log' = r.log
                /\ app' = IF r.kind = "Panic" THEN Panicked(app)
                          ELSE ToDraw(set_error(app, r.kind))
    /\ UNCHANGED <<pc, encoder_inputs, lines, pages, spine_to_page, file, book,
                   ops_state, screen>>

\* The app after `self.current_page = target; self.current_page_ops =
\* self.source.trbk_page(self.current_page).ok();` and the source after the fetch.
TurnTo(target, state) ==
    LET p == trbk_page(file, trbk, target)
    IN  /\ page' = PageResult(p, target)
        /\ io_log' = p.log
        /\ app' = IF p.kind = "Panic" THEN Panicked(app)
                  ELSE ToDraw([app EXCEPT !.current_page = target,
                                          !.current_page_ops = PageOps(p),
                                          !.state = state,
                                          !.dirty = TRUE])
        /\ UNCHANGED <<pc, encoder_inputs, lines, pages, spine_to_page, file, book, trbk,
                       info, ops_state, screen>>

\* BookViewing, Left or Up.
BookPrev ==
    /\ Updating
    /\ app.state = "BookViewing"
    /\ IF app.current_page > 0
       THEN TurnTo(app.current_page - 1, "BookViewing")
       ELSE /\ app' = ToDraw(app)
            /\ UNCHANGED <<pc, encoder_inputs, lines, pages, spine_to_page, file,
                           decoder_state, ops_state, screen>>

\* BookViewing, Right or Down.
BookNext ==
    /\ Updating
    /\ app.state = "BookViewing"
    /\ IF app.current_book # None
          /\ app.current_page + 1 < app.current_book.info.page_count
       THEN TurnTo(app.current_page + 1, "BookViewing")
       ELSE /\ app' = ToDraw(app)
            /\ UNCHANGED <<pc, encoder_inputs, lines, pages, spine_to_page, file,
                           decoder_state, ops_state, screen>>

\* BookViewing, Confirm: the table of contents.
BookConfirm ==
    /\ Updating
    /\ app.state = "BookViewing"
    /\ app' = IF app.current_book # None /\ app.current_book.info.toc # <<>>
              THEN ToDraw([app EXCEPT
                       !.toc_selected = find_toc_selection(app.current_book.info,
                                                           app.current_page),
                       !.state = "Toc",
                       !.dirty = TRUE])
              ELSE ToDraw(app)
    /\ UNCHANGED <<pc, encoder_inputs, lines, pages, spine_to_page, file, decoder_state,
                   ops_state, screen>>

\* BookViewing, Back: the menu; the session is closed.
BookBack ==
    /\ Updating
    /\ app.state = "BookViewing"
    /\ app' = ToDraw([app EXCEPT !.state = "Menu", !.current_book = None,
                                 !.current_page_ops = None, !.dirty = TRUE])
    /\ trbk' = NoSession
    /\ UNCHANGED <<pc, encoder_inputs, lines, pages, spine_to_page, file, book, info,
                   page, io_log, ops_state, screen>>

\* Toc, Up or Down.
TocMove(delta) ==
    /\ Updating
    /\ app.state = "Toc"
    /\ app' = IF app.current_book = None
              THEN ToDraw([app EXCEPT !.state = "BookViewing", !.dirty = TRUE])
              ELSE IF delta < 0 /\ app.toc_selected > 0
              THEN ToDraw([app EXCEPT !.toc_selected = @ - 1, !.dirty = TRUE])
              ELSE IF delta > 0 /\ app.toc_selected + 1 < Len(app.current_book.info.toc)
              THEN ToDraw([app EXCEPT !.toc_selected = @ + 1, !.dirty = TRUE])
              ELSE ToDraw(app)
    /\ UNCHANGED <<pc, encoder_inputs, lines, pages, spine_to_page, file, decoder_state,
                   ops_state, screen>>

\* Toc, Confirm: the jump to the entry's page (entry.page_index as usize).
TocConfirm ==
    /\ Updating
    /\ app.state = "Toc"
    /\ app.current_book # None
    /\ app.toc_selected < Len(app.current_book.info.toc)
    /\ W_small(app.current_book.info.toc[app.toc_selected + 1].page_index)
    /\ TurnTo(W_int(app.current_book.info.toc[app.toc_selected + 1].page_index),
              "BookViewing")

\* Toc, Back.
TocBack ==
    /\ Updating
    /\ app.state = "Toc"
    /\ app' = ToDraw([app EXCEPT !.state = "BookViewing", !.dirty = TRUE])
    /\ UNCHANGED <<pc, encoder_inputs, lines, pages, spine_to_page, file, decoder_state,
                   ops_state, screen>>

\* Error, Back or Confirm.
ErrorDismiss ==
    /\ Updating
    /\ app.state = "Error"
    /\ app' = ToDraw([app EXCEPT !.state = "Menu", !.error_message = None,
                                 !.dirty = TRUE])
    /\ UNCHANGED <<pc, encoder_inputs, lines, pages, spine_to_page, file, decoder_state,
                   ops_state, screen>>

\* draw_book: the buffers are cleared, a page not held is fetched again, and
\* the ops of the page, if any, are drawn.
DrawBook ==
    IF app.current_book = None
    THEN /\ app' = [set_error(app, "Decode") EXCEPT !.loop = "update"]
         /\ screen' = [view |-> "cleared"]
         /\ UNCHANGED <<page, io_log>>
    ELSE LET refetch == app.current_page_ops = None
             p == trbk_page(file, trbk, app.current_page)
             held == IF refetch THEN PageOps(p) ELSE app.current_page_ops
             drawn == IF held = None THEN [kind |-> "Ok", runs |-> <<>>]
                      ELSE draw_ops_from(app.current_book.info, held.ops, 1)
         IN  /\ IF refetch
                THEN page' = PageResult(p, app.current_page) /\ io_log' = p.log
                ELSE UNCHANGED <<page, io_log>>
             /\ IF (refetch /\ p.kind = "Panic") \/ drawn.kind = "Panic"
                THEN /\ app' = Panicked(app)
                     /\ screen' = [view |-> "cleared"]
                ELSE /\ app' = [app EXCEPT !.current_page_ops = held, !.dirty = FALSE,
                                           !.loop = "update"]
                     /\ screen' = [view |-> "book", page |-> app.current_page,
                                   ops |-> held, runs |-> drawn.runs]

\* Application::draw.
Draw ==
    /\ pc = "written"
    /\ app.loop = "draw"
    /\ IF ~app.dirty
       THEN app' = [app EXCEPT !.loop = "update"] /\ UNCHANGED <<screen, page, io_log>>
       ELSE IF app.state = "BookViewing" THEN DrawBook
       ELSE /\ app' = IF app.state = "Toc" /\ app.current_book = None
                      THEN [set_error(app, "Decode") EXCEPT !.loop = "update"]
                      ELSE [app EXCEPT !.dirty = FALSE, !.loop = "update"]
            /\ screen' = IF app.state = "Toc" /\ app.current_book # None
                         THEN [view |-> "toc", selected |-> app.toc_selected]
                         ELSE IF app.state = "Error"
                         THEN [view |-> "error", message |-> app.error_message]
                         ELSE IF app.state = "Menu" THEN [view |-> "menu"]
                         ELSE [view |-> "cleared"]
            /\ UNCHANGED <<page, io_log>>
    /\ UNCHANGED <<pc, encoder_inputs, lines, pages, spine_to_page, file, book, trbk,
                   info, ops_state>>

Next ==
    \/ Wrap
    \/ Paginate
    \/ MapSpines
    \/ WriteTrbk
    \/ ParseTrbk
    \/ OpenTrbk
    \/ \E i \in 0..MaxPageIndex : TrbkPage(i)
    \/ CloseTrbk

Spec == Init /\ [][Next]_vars

----------------------------------------------------------------------------
(* Properties of the conversion and its round trip (under Spec).           *)

\* The texts of a page's runs with the "\n" line-break pseudo-runs removed.
RECURSIVE RunTextsFrom(_, _)
RunTextsFrom(runs, i) ==
    IF i > Len(runs) THEN <<>>
    ELSE (IF runs[i].text = NEWLINE THEN <<>> ELSE <<runs[i].text>>)
         \o RunTextsFrom(runs, i + 1)

RunTexts(runs) == RunTextsFrom(runs, 1)

\* The texts of a decoded page's TextRun ops.
OpTexts(page_ops) == [i \in DOMAIN page_ops |-> page_ops[i].text]

\* parse_trbk has been applied to the file write_trbk wrote.
Parsed == pc = "written" /\ book.kind # "None"

\* C1: round trip of the pages.  Once parse_trbk has been applied to the
\* bytes written by write_trbk, it has returned a book whose page_count is
\* the number of pages written and whose page i holds TextRun ops with the
\* texts of page i's runs, in order, the "\n" pseudo-runs left out.
C1_PageRoundTrip ==
    Parsed =>
        /\ book.kind = "Ok"
        /\ book.page_count = Len(pages)
        /\ Len(book.pages) = Len(pages)
        /\ \A i \in DOMAIN pages :
              OpTexts(book.pages[i].ops) = RunTexts(pages[i].runs)

\* C2: round trip of the layout constants.  Once parse_trbk has been applied
\* to the bytes written by write_trbk, it has returned metadata whose
\* char_width, line_height, ascent and four margins are the values the
\* encoder wrote: options.char_width, line_height, ascent, margin_x,
\* margin_x, margin_y, margin_y.
C2_LayoutRoundTrip ==
    Parsed =>
        /\ book.kind = "Ok"
        /\ book.metadata.char_width = options.char_width
        /\ book.metadata.line_height = options.line_height
        /\ book.metadata.ascent = options.ascent
        /\ book.metadata.margin_left = options.margin_x
        /\ book.metadata.margin_right = options.margin_x
        /\ book.metadata.margin_top = options.margin_y
        /\ book.metadata.margin_bottom = options.margin_y

\* open_trbk has been applied to the file write_trbk wrote.
Opened == pc = "written" /\ info.kind # "None"

\* The TOC entries as a decoder returns them: page_index is a u32.
DecodedToc(entries) ==
    [i \in DOMAIN entries |->
        TocEntry(entries[i].title, W(entries[i].page_index), entries[i].level)]

\* The TOC block of the file is where the header says: toc_offset is
\* header_size and the entries' bytes start there.
TocBlockAtHeaderSize ==
    LET header_size == read_u16(file, 6).value
        toc == toc_bytes(toc_entries)
    IN  /\ read_u32(file, 24).value = W(header_size)
        /\ header_size + Len(toc) <= Len(file)
        /\ Slice(file, header_size, header_size + Len(toc)) = toc

\* C3: round trip of the TOC.  Once a decoder (parse_trbk, open_trbk) has
\* been applied to the bytes written by write_trbk, it has returned the
\* entries given to write_trbk: as many, in that order, each with its
\* title, page_index and level, from a TOC block that starts at
\* toc_offset = header_size.
C3_TocRoundTrip ==
    /\ Parsed => book.kind = "Ok" /\ book.toc = DecodedToc(toc_entries)
    /\ Opened => info.kind = "Ok" /\ info.info.toc = DecodedToc(toc_entries)
    /\ (Parsed \/ Opened) /\ toc_entries # <<>> => TocBlockAtHeaderSize

\* paginate_lines has returned the pages.
Paginated == pc \in {"paginated", "mapped", "written"}

\* The chapter a token of the input comes from, read off its first char
\* (chapter c writes Letter(c)); the chapters whose tokens a page holds.
PageChapters(pg) ==
    { pg.runs[i].text[1] - Letter(0) :
        i \in { j \in DOMAIN pg.runs :
                  /\ pg.runs[j].text # <<>>
                  /\ pg.runs[j].text[1] >= Letter(0)
                  /\ pg.runs[j].text[1] < Letter(Len(spine_runs)) } }

\* C4: one chapter per page.  No page returned by paginate_lines(wrap_runs(..))
\* holds text runs that come from two distinct chapters.
C4_OneChapterPerPage ==
    Paginated /\ spine_runs # <<>> =>
        \A p \in DOMAIN pages : Cardinality(PageChapters(pages[p])) <= 1

\* The chapters that contribute a text run: those with a token.
ContributingChapters ==
    { spine_runs[c].spine_index :
        c \in { d \in DOMAIN spine_runs :
                  \E r \in DOMAIN spine_runs[d].runs :
                      split_whitespace(spine_runs[d].runs[r].text) # <<>> } }

\* C5: chapter coverage.  Every chapter that contributes a text run is the
\* spine_index of a page returned by paginate_lines(wrap_runs(..)), and
\* compute_spine_page_map maps it to a page.
C5_ChapterCoverage ==
    /\ Paginated =>
          \A c \in ContributingChapters :
              \E p \in DOMAIN pages : pages[p].spine_index = c
    /\ pc \in {"mapped", "written"} =>
          \A c \in ContributingChapters : spine_to_page[c + 1] >= 0

----------------------------------------------------------------------------
(* The page instruction interpreter on streams of well-formed records      *)
(* (SpecOps).                                                              *)

MaxRecords == 3   \* records of a stream

\* A record: an opcode and, for 0x01, the fields of a TextRun, else a payload.
TextRecord(x, y, style, text) ==
    [opcode |-> 1, x |-> x, y |-> y, style |-> style, text |-> text]
OtherRecord(opcode, payload) == [opcode |-> opcode, payload |-> payload]

RecordInputs ==
    { TextRecord(16, 74, Regular, <<72, 105>>),         \* 0x01 "Hi"
      TextRecord(0, 65535, BoldStyle, <<79, 107>>),     \* 0x01 "Ok"
      TextRecord(300, 0, Regular, <<>>),                \* 0x01 ""
      TextRecord(5, 44, BoldStyle, <<233, 8364>>),      \* 0x01 "é€"
      OtherRecord(255, <<1, 2, 3>>),                    \* 0xFF len=3
      OtherRecord(0, <<>>),                             \* 0x00 len=0
      OtherRecord(2, <<1, 2, 0, 255, 255>>),            \* 0x02, a payload like a record
      OtherRecord(1, <<1, 2>>),                         \* 0x01, payload under 6 bytes
      OtherRecord(1, <<0, 0, 0, 0, 0, 0, 255>>) }       \* 0x01, text not UTF-8

\* The bytes of a well-formed record: opcode, u16 length, payload.
IsTextRecord(r) == "text" \in DOMAIN r

RecordBytes(r) ==
    IF IsTextRecord(r)
    THEN text_run_record(r.x, r.y, TextRun(r.text, r.style))
    ELSE <<r.opcode>> \o u16_to_le_bytes(Len(r.payload)) \o r.payload

RECURSIVE StreamFrom(_, _)
StreamFrom(rs, i) ==
    IF i > Len(rs) THEN <<>> ELSE RecordBytes(rs[i]) \o StreamFrom(rs, i + 1)

\* The TextRun ops of the 0x01 records of rs, in stream order.
RECURSIVE TextOpsFrom(_, _)
TextOpsFrom(rs, i) ==
    IF i > Len(rs) THEN <<>>
    ELSE (IF IsTextRecord(rs[i])
          THEN <<TextRunOp(rs[i].x, rs[i].y, style_id_from_style(rs[i].style), rs[i].text)>>
          ELSE <<>>)
         \o TextOpsFrom(rs, i + 1)

RecordStreams == UNION { [1..n -> RecordInputs] : n \in 0..MaxRecords }

\* The variables of the conversion and of the decoders, at rest.
AtRest ==
    /\ overflow_checks = TRUE
    /\ usize_bits = 32
    /\ spine_runs = <<>>
    /\ options = DefaultOptions
    /\ metadata = SmallMetadata
    /\ glyphs = <<>>
    /\ toc_entries = <<>>
    /\ cache = NoCache
    /\ rasters = <<>>
    /\ lines = <<>>
    /\ pages = <<>>
    /\ spine_to_page = <<>>

InitOps ==
    /\ pc = "stream"
    /\ AtRest
    /\ file = <<>>
    /\ book = None
    /\ trbk = NoSession
    /\ info = None
    /\ page = None
    /\ io_log = <<>>
    /\ records \in RecordStreams
    /\ stream = StreamFrom(records, 1)
    /\ ops = None
    /\ app = NoApp
    /\ screen = Blank

\* parse_trbk_page_ops(&stream).
ParseOps ==
    /\ pc = "stream"
    /\ ops = None
    /\ ops' = parse_trbk_page_ops(stream)
    /\ UNCHANGED <<pc, encoder_inputs, lines, pages, spine_to_page, file, decoder_state,
                   records, stream, viewer_state>>

NextOps == ParseOps

SpecOps == InitOps /\ [][NextOps]_vars

\* C6: forward compatibility.  On a stream of well-formed records,
\* parse_trbk_page_ops succeeds whatever the opcodes other than 0x01 are,
\* and returns exactly the TextRun ops of the 0x01 records, in stream order;
\* it fails, with Decode, only on a 0x01 record that is not a TextRun.
C6_ForwardCompatible ==
    ops.kind # "None" =>
        IF \A i \in DOMAIN records : records[i].opcode = 1 => IsTextRecord(records[i])
        THEN /\ ops.kind = "Ok"
             /\ ops.ops = TextOpsFrom(records, 1)
        ELSE ops = Err("Decode")

\* A stream with an unknown opcode between two TextRun records has been decoded.
C6_Witness ==
    /\ ops.kind = "Ok"
    /\ \E i, j, k \in DOMAIN records :
          /\ i < j /\ j < k
          /\ IsTextRecord(records[i]) /\ records[j].opcode = 255 /\ IsTextRecord(records[k])
    /\ Len(ops.ops) = 2

----------------------------------------------------------------------------
(* The decoders on files laid out field by field, well formed or not       *)
(* (SpecDecode).                                                           *)

W_to_le_bytes(a) == u16_to_le_bytes(a[2]) \o u16_to_le_bytes(a[1])

\* f with the bytes at offset.. replaced.
Patch(f, offset, bytes) ==
    [i \in 1..Len(f) |->
        IF i > offset /\ i <= offset + Len(bytes) THEN bytes[i - offset] ELSE f[i]]

SetU32(f, offset, w) == Patch(f, offset, W_to_le_bytes(w))
Truncate(f, n) == SubSeq(f, 1, Min(n, Len(f)))

\* The margins of the laid-out files: left, right, top, bottom.
LayoutMargins == <<16, 17, 60, 61>>

\* A container: its version, whether the metadata block has the ascent
\* field, the padding bytes that end the header, line_height, the TOC, the
\* instruction stream of each page, and the glyphs; char_width is 10 unless
\* changed.
Layout(version, has_ascent, pad, line_height, toc, streams, gs) ==
    [version |-> version, has_ascent |-> has_ascent, pad |-> pad,
     line_height |-> line_height, toc |-> toc, streams |-> streams, gs |-> gs,
     char_width |-> 10]

LayoutOptions(l) == RenderOptions(480, 800, 16, 60, l.line_height, l.char_width, 14, 2)

LayoutMetadata(l) ==
    write_string(SmallMetadata.title) \o write_string(SmallMetadata.author)
    \o write_string(SmallMetadata.language) \o write_string(SmallMetadata.identifier)
    \o write_string(FONT_NAME)
    \o u16_to_le_bytes(l.char_width) \o u16_to_le_bytes(l.line_height)
    \o (IF l.has_ascent THEN u16_to_le_bytes(14) ELSE <<>>)
    \o u16_to_le_bytes(LayoutMargins[1]) \o u16_to_le_bytes(LayoutMargins[2])
    \o u16_to_le_bytes(LayoutMargins[3]) \o u16_to_le_bytes(LayoutMargins[4])
    \o Repeat(0, l.pad)

RECURSIVE LayoutPages(_, _, _)
LayoutPages(streams, i, page_start) ==
    IF i > Len(streams) THEN [lut |-> <<>>, data |-> <<>>]
    ELSE LET rest == LayoutPages(streams, i + 1, page_start + Len(streams[i]))
         IN  [lut |-> u32_to_le_bytes(page_start) \o rest.lut,
              data |-> streams[i] \o rest.data]

\* The bytes of the container: the fixed header ends at 0x2C in version 1
\* and at 0x30, after glyph_count and glyph_table_offset, in version 2.
LayoutBytes(l) ==
    LET meta == LayoutMetadata(l)
        header_size == (IF l.version >= 2 THEN 48 ELSE 44) + Len(meta)
        toc == toc_bytes(l.toc)
        page_lut_offset == header_size + Len(toc)
        blocks == LayoutPages(l.streams, 1, 0)
        page_data_offset == page_lut_offset + Len(blocks.lut)
        glyph_table_offset == page_data_offset + Len(blocks.data)
    IN  MAGIC \o <<l.version, 0>> \o u16_to_le_bytes(header_size)
        \o u16_to_le_bytes(480) \o u16_to_le_bytes(800)
        \o u32_to_le_bytes(Len(l.streams)) \o u32_to_le_bytes(Len(l.toc))
        \o u32_to_le_bytes(page_lut_offset) \o u32_to_le_bytes(header_size)
        \o u32_to_le_bytes(page_data_offset)
        \o u32_to_le_bytes(0) \o u32_to_le_bytes(0)
        \o (IF l.version >= 2
            THEN u32_to_le_bytes(Len(l.gs)) \o u32_to_le_bytes(glyph_table_offset)
            ELSE u32_to_le_bytes(0))
        \o meta \o toc \o blocks.lut \o blocks.data
        \o (IF l.version >= 2 THEN write_glyph_table(l.gs) ELSE <<>>)

HiStream == text_run_record(16, 74, TextRun(<<72, 105>>, Regular))
OkStream == text_run_record(16, 74, TextRun(<<79, 107>>, BoldStyle))
           \o text_run_record(40, 94, TextRun(<<233>>, Regular))

OneGlyph == <<Glyph(97, 0, 1, 1, 7, 0, -1, <<128>>)>>
OneToc == <<TocEntry(<<99, 49>>, 1, 0)>>

\* The line heights of the legacy files.
LegacyLineHeights == {0, 3, 20, 32767, 32768, 40000, 65535}

\* Version 1 files of the layout that precedes the ascent field.
LegacyLayouts ==
    { Layout(1, FALSE, 0, lh, t, s, <<>>) :
        lh \in LegacyLineHeights,
        t \in {<<>>, OneToc},
        s \in {<<HiStream>>, <<HiStream, OkStream>>} }

\* Files with the ascent field: version 2 with and without glyphs, with and
\* without padding after the margins, and version 1.
AscentLayouts ==
    { Layout(2, TRUE, 2, 20, OneToc, <<HiStream, OkStream>>, OneGlyph),
      Layout(2, TRUE, 0, 20, <<>>, <<HiStream, OkStream>>, <<>>),
      Layout(2, TRUE, 2, 20, <<>>, <<>>, OneGlyph),
      Layout(1, TRUE, 2, 20, OneToc, <<HiStream, OkStream>>, <<>>),
      Layout(1, TRUE, 0, 20, <<>>, <<HiStream>>, <<>>) }

Layouts == LegacyLayouts \cup AscentLayouts

\* Offsets of header fields.
AT_PAGE_LUT_OFFSET == 20       \* 0x14
AT_PAGE_DATA_OFFSET == 28      \* 0x1C
AT_GLYPH_TABLE_OFFSET == 44    \* 0x2C

\* Values near the top of the u32 range.
NearTop == { <<65535, 65535>>, <<65535, 65520>>, <<32768, 0>> }

LutAt(f, i) == W_int(read_u32(f, AT_PAGE_LUT_OFFSET).value) + 4 * i

\* f with page_data_offset set to top and every page offset raised so that,
\* modulo 2^32, each sum page_data_offset + offsets[i] is what it was.
RECURSIVE ShiftOffsets(_, _, _, _)
ShiftOffsets(f, i, n, delta) ==
    IF i >= n THEN f
    ELSE ShiftOffsets(
             SetU32(f, LutAt(f, i), W_add(read_u32(f, LutAt(f, i)).value, delta)),
             i + 1, n, delta)

Wrapping(f) ==
    LET top == <<65535, 65520>>
        n == W_int(read_u32(f, 12).value)
        delta == W_add(read_u32(f, AT_PAGE_DATA_OFFSET).value, W_sub(<<U16, 0>>, top))
    IN  SetU32(ShiftOffsets(f, 0, n, delta), AT_PAGE_DATA_OFFSET, top)

\* Files whose page fields are out of range.
PageTampers(f) ==
    { SetU32(f, AT_PAGE_DATA_OFFSET, w) : w \in NearTop }
    \cup { SetU32(f, LutAt(f, i), w) : i \in 0..1, w \in NearTop }
    \cup { SetU32(f, AT_GLYPH_TABLE_OFFSET, w) : w \in NearTop \cup {W(0)} }
    \cup { Wrapping(f) }

\* Files with a wrong magic, an unknown version, or cut short.
HeaderTampers(f) ==
    { Patch(f, 0, <<0>>), Patch(f, 3, <<88>>) }
    \cup { Patch(f, 4, <<v>>) : v \in {0, 3, 255} }
    \cup { Truncate(Patch(f, 4, <<v>>), n) : v \in {1, 2, 3}, n \in {0, 3, 4, 5, 43, 44, 45, 47, 48} }
    \cup { Patch(Patch(f, 0, <<0>>), 4, <<3>>) }

\* Offsets of the counts in the header, and of a glyph's bitmap_len in its
\* glyph header.
AT_PAGE_COUNT == 12            \* 0x0C
AT_TOC_COUNT == 16             \* 0x10
AT_TOC_OFFSET == 24            \* 0x18
AT_BITMAP_LEN == 13

\* Files whose counts and lengths are far beyond the size of the file:
\* toc_count, the first TOC title's length, page_count, and the first
\* glyph's bitmap_len.
SizeTampers(f) ==
    { SetU32(f, AT_TOC_COUNT, w) : w \in NearTop }
    \cup { SetU32(f, W_int(read_u32(f, AT_TOC_OFFSET).value), w) : w \in NearTop }
    \cup { SetU32(f, AT_PAGE_COUNT, w) : w \in NearTop }
    \cup { SetU32(f, W_int(read_u32(f, AT_GLYPH_TABLE_OFFSET).value) + AT_BITMAP_LEN, w) :
              w \in NearTop }

\* Files whose toc_offset is not header_size: 0, and one more.
TocOffsetTampers(f) ==
    { SetU32(f, AT_TOC_OFFSET, W(0)),
      SetU32(f, AT_TOC_OFFSET, W(read_u16(f, 6).value + 1)) }

\* Files whose header_size, and toc_offset with it, ends before the metadata.
HeaderSizeTampers(f) ==
    { Patch(SetU32(f, AT_TOC_OFFSET, W(n)), 6, u16_to_le_bytes(n)) : n \in {0, 47, 50} }

FullLayout == Layout(2, TRUE, 2, 20, OneToc, <<HiStream, OkStream>>, OneGlyph)
NoGlyphLayout == Layout(2, TRUE, 0, 20, <<>>, <<HiStream, OkStream>>, <<>>)

\* The files as laid out.
ValidFiles == { LayoutBytes(l) : l \in Layouts }
LegacyFiles == { LayoutBytes(l) : l \in LegacyLayouts }

\* The files given to the decoders, each with the layout it was made from.
DecodeInputs ==
    { [layout |-> l, bytes |-> LayoutBytes(l)] : l \in Layouts }
    \cup
    { [layout |-> FullLayout, bytes |-> b] :
        b \in PageTampers(LayoutBytes(FullLayout)) \cup HeaderTampers(LayoutBytes(FullLayout))
              \cup SizeTampers(LayoutBytes(FullLayout))
              \cup TocOffsetTampers(LayoutBytes(FullLayout))
              \cup HeaderSizeTampers(LayoutBytes(FullLayout)) }
    \cup
    { [layout |-> NoGlyphLayout, bytes |-> b] :
        b \in PageTampers(LayoutBytes(NoGlyphLayout))
              \cup TocOffsetTampers(LayoutBytes(NoGlyphLayout)) }
    \cup
    { [layout |-> l, bytes |-> b] :
        l \in { Layout(1, TRUE, 2, 20, OneToc, <<HiStream, OkStream>>, <<>>) },
        b \in HeaderTampers(LayoutBytes(Layout(1, TRUE, 2, 20, OneToc, <<HiStream, OkStream>>, <<>>))) }

InitDecode ==
    /\ pc = "written"
    /\ \E b \in Builds : overflow_checks = b[1] /\ usize_bits = b[2]
    /\ \E d \in DecodeInputs :
          /\ file = d.bytes
          /\ options = LayoutOptions(d.layout)
          /\ toc_entries = d.layout.toc
          /\ cache = NoCache
          /\ rasters = <<>>
          /\ glyphs = d.layout.gs
    /\ spine_runs = <<>>
    /\ metadata = SmallMetadata
    /\ lines = <<>>
    /\ pages = <<>>
    /\ spine_to_page = <<>>
    /\ book = None
    /\ trbk = NoSession
    /\ info = None
    /\ page = None
    /\ io_log = <<>>
    /\ records = <<>>
    /\ stream = <<>>
    /\ ops = None
    /\ app = NoApp
    /\ screen = Blank

NextDecode ==
    \/ ParseTrbk
    \/ OpenTrbk
    \/ \E i \in 0..MaxPageIndex : TrbkPage(i)
    \/ CloseTrbk

SpecDecode == InitDecode /\ [][NextDecode]_vars

----------------------------------------------------------------------------
(* Properties of the decoders (under SpecDecode).                          *)

\* A page of the open session has been asked for.
PageFetched ==
    /\ trbk.open
    /\ page.kind # "None"
    /\ page.index < Len(trbk.page_offsets)

\* page_data_offset + offsets[i], in the integers.
ExactPageStart(i) == W_add(trbk.page_data_offset, trbk.page_offsets[i + 1])

\* The header fields of the file, as written in it.
FilePageDataOffset == read_u32(file, AT_PAGE_DATA_OFFSET).value
FileGlyphTableOffset == read_u32(file, AT_GLYPH_TABLE_OFFSET).value
FilePageOffset(i) == read_u32(file, LutAt(file, i)).value

\* C7: page index invariant.  Whatever the header fields and page offsets
\* are, a page fetch (trbk_page, and the page loop of parse_trbk) ends in a
\* page or in Decode, never in a panic; the bytes it takes start at
\* page_data_offset + offsets[i], not at a wrapped position, and lie in the
\* file: start <= end <= file_size.
C7_PageIndexInvariant ==
    /\ PageFetched =>
          /\ page.kind \in {"Ok", "Decode"}
          /\ \A k \in DOMAIN io_log :
                /\ io_log[k].pos = ExactPageStart(page.index)
                /\ page.kind = "Ok" => W_leq(W_add(io_log[k].pos, io_log[k].len), Len(file))
    /\ book.kind # "Panic"
    /\ book.kind = "Ok" =>
          \A idx \in DOMAIN book.ranges :
              /\ W(book.ranges[idx][1]) = W_add(FilePageDataOffset, FilePageOffset(idx - 1))
              /\ book.ranges[idx][1] <= book.ranges[idx][2]
              /\ book.ranges[idx][2] <= Len(file)

\* The file has a glyph table after the page data.
GlyphTableAfterPages ==
    file[5] >= 2 /\ W_lt(FilePageDataOffset, FileGlyphTableOffset)

\* Where page i ends: at the next page, or for the last page at the glyph
\* table, or at the end of the file when there is none.
ExpectedPageEnd(i) ==
    IF i + 1 < Len(trbk.page_offsets) THEN ExactPageStart(i + 1)
    ELSE IF GlyphTableAfterPages THEN FileGlyphTableOffset
    ELSE W(Len(file))

\* C8: last-page rule of the streaming reader.  On a valid file,
\* trbk_page(i) makes one read, at page_data_offset + offsets[i], of
\* offsets[i+1] - offsets[i] bytes, and for the last page of the bytes up to
\* the glyph table when there is one after the page data and up to the end
\* of the file otherwise; the page is returned.
C8_LastPageRule ==
    (file \in ValidFiles /\ PageFetched) =>
        /\ page.kind = "Ok"
        /\ io_log = <<ReadLog(ExactPageStart(page.index),
                              W_sub(ExpectedPageEnd(page.index),
                                    ExactPageStart(page.index)))>>

\* C9: legacy header.  A version 1 file whose metadata block has the four
\* margins right after line_height decodes, with
\* ascent = line_height - line_height / 4, the margins of the file, and no glyph.
C9_LegacyHeader ==
    (file \in LegacyFiles /\ book.kind # "None") =>
        /\ book.kind = "Ok"
        /\ book.metadata.line_height = options.line_height
        /\ book.metadata.ascent = options.line_height - (options.line_height \div 4)
        /\ <<book.metadata.margin_left, book.metadata.margin_right,
             book.metadata.margin_top, book.metadata.margin_bottom>> = LayoutMargins
        /\ book.glyphs = <<>>

BadMagic == Len(file) < 4 \/ Slice(file, 0, 4) # MAGIC

\* open_trbk has just returned an error after reading the fixed header only.
OpenStoppedAtHeader(kind) ==
    /\ info = Err(kind)
    /\ io_log = <<ReadLog(W(0), W(48))>>
    /\ trbk = NoSession

\* C10: magic and version errors are distinct.  parse_trbk and open_trbk
\* return Decode for a file without the magic or shorter than the fixed
\* header (0x2C bytes for parse_trbk, the 0x30 bytes open_trbk reads), and
\* Unsupported for a file with the magic and a version byte other than 1
\* and 2; the result carries nothing else, and open_trbk has read nothing
\* but the fixed header and keeps no session.
C10_MagicVersionErrors ==
    /\ book.kind # "None" =>
          /\ (Len(file) < 44 \/ BadMagic) => book = Err("Decode")
          /\ (Len(file) >= 44 /\ ~BadMagic /\ file[5] \notin {1, 2})
                => book = Err("Unsupported")
    /\ (info.kind # "None" /\ page = None) =>
          /\ (Len(file) < 48 \/ BadMagic) => OpenStoppedAtHeader("Decode")
          /\ (Len(file) >= 48 /\ ~BadMagic /\ file[5] \notin {1, 2})
                => OpenStoppedAtHeader("Unsupported")

\* Both decoders have refused a file with the magic and version 3.
C10_Witness ==
    /\ ~BadMagic
    /\ Len(file) >= 48
    /\ file[5] = 3
    /\ book = Err("Unsupported")
    /\ OpenStoppedAtHeader("Unsupported")

\* The first TOC title's length and the first glyph's bitmap_len, as
\* written in the file, where the file has them.
HasFirstTitle ==
    /\ read_u32(file, AT_TOC_COUNT).value # W(0)
    /\ W_leq(read_u32(file, AT_TOC_OFFSET).value, Len(file) - 4)
FirstTitleLen == read_u32(file, W_int(read_u32(file, AT_TOC_OFFSET).value)).value
HasFirstGlyph ==
    /\ file[5] >= 2
    /\ read_u32(file, 40).value # W(0)
    /\ W_leq(FileGlyphTableOffset, Len(file) - (AT_BITMAP_LEN + 4))
FirstBitmapLen == read_u32(file, W_int(FileGlyphTableOffset) + AT_BITMAP_LEN).value

\* A count or a length of the file says more than the file has bytes.
OversizedField ==
    /\ Len(file) >= 48
    /\ \/ W_gt(read_u32(file, AT_TOC_COUNT).value, Len(file))
       \/ W_gt(read_u32(file, AT_PAGE_COUNT).value, Len(file))
       \/ HasFirstTitle /\ W_gt(FirstTitleLen, Len(file))
       \/ HasFirstGlyph /\ W_gt(FirstBitmapLen, Len(file))

ErrorValues == {"Decode", "Unsupported", "Io"}

\* C15: bounded allocation on the decode path.  A file with a count or a
\* length beyond its size is refused with an error value by parse_trbk and
\* by open_trbk: no buffer of that size is asked for.
C15_BoundedAllocation ==
    OversizedField =>
        /\ book.kind \in ErrorValues \cup {"None"}
        /\ info.kind \in ErrorValues \cup {"None"}

\* The header of the file has the magic and a known version.
KnownHeader ==
    /\ Len(file) >= 48
    /\ SubSeq(file, 1, 4) = MAGIC
    /\ file[5] \in {1, 2}

FileHeaderSize == read_u16(file, 6).value
FileTocCount == read_u32(file, AT_TOC_COUNT).value
FileTocOffset == read_u32(file, AT_TOC_OFFSET).value

\* The file with toc_offset set to header_size.
TocOffsetRestored == SetU32(file, AT_TOC_OFFSET, W(FileHeaderSize))

\* C16: TOC offset rule.  A file with a TOC whose toc_offset is not
\* header_size is rejected with Decode by both decoders; a file without a
\* TOC decodes as the same file with toc_offset == header_size does.
C16_TocOffsetRule ==
    (KnownHeader /\ FileTocOffset # W(FileHeaderSize)) =>
        IF FileTocCount # W(0)
        THEN /\ book.kind \in {"None", "Decode"}
             /\ info.kind \in {"None", "Decode"}
        ELSE /\ book.kind # "None" => book = parse_trbk(TocOffsetRestored)
             /\ info.kind # "None" => info.kind = open_trbk(TocOffsetRestored).kind

----------------------------------------------------------------------------
(* The viewer on books on the card (SpecViewer): the main loop calls       *)
(* update and draw in turn.                                                *)

\* "ab" and "a", then "b\na" in bold.
AbStream == text_run_record(16, 74, TextRun(<<97, 98>>, Regular))
            \o text_run_record(40, 74, TextRun(<<97>>, Regular))
            \o text_run_record(16, 94, TextRun(<<98, 10, 97>>, BoldStyle))

\* A page whose second record is cut short.
CutStream == Truncate(OkStream, Len(OkStream) - 1)

TwoToc == <<TocEntry(<<99, 49>>, 0, 0), TocEntry(<<99, 50>>, 1, 0)>>
\* A table of contents that names a page the book does not have.
FarToc == <<TocEntry(<<99, 49>>, 0, 0), TocEntry(<<99, 50>>, 3, 0)>>

\* 'a' regular and 'b' bold; 'b' regular and 'a' bold have no glyph.
TwoGlyphs == <<Glyph(97, 0, 2, 2, 7, 1, 2, <<144>>), Glyph(98, 1, 1, 1, 9, 0, 0, <<128>>)>>

WithCharWidth(l, cw) == [l EXCEPT !.char_width = cw]

\* Books with and without glyphs, whose char_width is not the pitch of the
\* built-in font, and books with a page that cannot be decoded.
ViewerLayouts ==
    { WithCharWidth(Layout(2, TRUE, 2, 20, TwoToc, <<AbStream, HiStream>>, TwoGlyphs), 12),
      WithCharWidth(Layout(2, TRUE, 2, 20, <<>>, <<AbStream, HiStream>>, <<>>), 12),
      Layout(2, TRUE, 2, 20, TwoToc, <<HiStream, CutStream, AbStream>>, TwoGlyphs),
      Layout(2, TRUE, 2, 20, FarToc, <<AbStream, OkStream>>, OneGlyph),
      Layout(1, TRUE, 2, 20, TwoToc, <<HiStream, OkStream>>, <<>>),
      Layout(2, TRUE, 2, 20, <<>>, <<>>, <<>>) }

ViewerInputs ==
    { [layout |-> l, bytes |-> LayoutBytes(l)] : l \in ViewerLayouts }
    \cup
    { [layout |-> FullLayout, bytes |-> b] :
        b \in PageTampers(LayoutBytes(FullLayout))
              \cup { Patch(LayoutBytes(FullLayout), 0, <<0>>) } }

InitViewer ==
    /\ pc = "written"
    /\ \E b \in Builds : overflow_checks = b[1] /\ usize_bits = b[2]
    /\ \E d \in ViewerInputs :
          /\ file = d.bytes
          /\ options = LayoutOptions(d.layout)
          /\ toc_entries = d.layout.toc
          /\ cache = NoCache
          /\ rasters = <<>>
          /\ glyphs = d.layout.gs
    /\ spine_runs = <<>>
    /\ metadata = SmallMetadata
    /\ lines = <<>>
    /\ pages = <<>>
    /\ spine_to_page = <<>>
    /\ book = None
    /\ trbk = NoSession
    /\ info = None
    /\ page = None
    /\ io_log = <<>>
    /\ records = <<>>
    /\ stream = <<>>
    /\ ops = None
    /\ app = NoApp
    /\ screen = Blank

NextViewer ==
    \/ NoButton
    \/ OpenSelected
    \/ BookPrev
    \/ BookNext
    \/ BookConfirm
    \/ BookBack
    \/ \E delta \in {-1, 1} : TocMove(delta)
    \/ TocConfirm
    \/ TocBack
    \/ ErrorDismiss
    \/ Draw

SpecViewer == InitViewer /\ [][NextViewer]_vars

\* The laid-out files whose header has bytes after the known fields.
PaddedLayouts == { l \in Layouts \cup ViewerLayouts : l.pad > 0 }

\* The same header without the trailing bytes.
Unpadded(l) == [l EXCEPT !.pad = 0]

\* A header_size that ends before the first metadata string is read.
HeaderTooShort == KnownHeader /\ FileHeaderSize <= 50

\* C17: header size as an upper bound.  A header_size too small for the
\* known fields is a Decode error, and a header with trailing bytes decodes
\* to the metadata of the same header without them.
C17_HeaderSizeBound ==
    /\ HeaderTooShort =>
          book.kind \in {"None", "Decode"} /\ info.kind \in {"None", "Decode"}
    /\ \A l \in PaddedLayouts :
          file = LayoutBytes(l) =>
              /\ book.kind # "None" =>
                    /\ book.kind = parse_trbk(LayoutBytes(Unpadded(l))).kind
                    /\ IsOk(book) =>
                          book.metadata
                              = parse_trbk(LayoutBytes(Unpadded(l))).metadata
              /\ info.kind # "None" =>
                    /\ info.kind = open_trbk(LayoutBytes(Unpadded(l))).kind
                    /\ IsOk(info) =>
                          info.info.metadata
                              = open_trbk(LayoutBytes(Unpadded(l))).info.metadata

----------------------------------------------------------------------------
(* Properties of the viewer (under SpecViewer).                            *)

\* The book page on the display, drawn from the book that is still open.
PageOnDisplay ==
    /\ screen.view = "book"
    /\ screen.ops # None
    /\ app.current_book # None

\* The characters drawn for op k of the page on the display that have no
\* glyph of the op's style in the book's glyph table.
AbsentSteps(k) ==
    { i \in DOMAIN screen.runs[k] :
        find_glyph(app.current_book.info.glyphs, screen.ops.ops[k].style,
                   screen.runs[k][i].ch) = 0 }

\* C11: glyph fallback.  Every character drawn without a glyph for its
\* (style, codepoint) moved the pen by exactly metadata.char_width and set
\* no pixel, whether the glyph table is empty or not.
C11_GlyphFallback ==
    PageOnDisplay =>
        \A k \in DOMAIN screen.runs : \A i \in AbsentSteps(k) :
            /\ screen.runs[k][i].pen - screen.runs[k][i].at
                   = app.current_book.info.metadata.char_width
            /\ screen.runs[k][i].pixels = {}
            /\ ~screen.runs[k][i].builtin

\* The same for a book that has glyphs and a text without line breaks.
C11_NonEmptyTable ==
    (PageOnDisplay /\ app.current_book.info.glyphs # <<>>) =>
        \A k \in DOMAIN screen.runs : \A i \in AbsentSteps(k) :
            screen.runs[k][i].ch \notin {10, 13} =>
                /\ screen.runs[k][i].pen - screen.runs[k][i].at
                       = app.current_book.info.metadata.char_width
                /\ screen.runs[k][i].pixels = {}

\* update has returned in the book viewer after a page fetch that failed,
\* and the display still holds the book page drawn before it.
AfterFailedFetch ==
    /\ app.loop = "draw"
    /\ app.state = "BookViewing"
    /\ page.kind \notin {"None", "Ok"}
    /\ screen.view = "book"

\* C14: a bad page does not destroy the view.  After a page fetch that
\* failed during a page turn the viewer's current page is still the page on
\* the display and the ops it holds are still those drawn there.
C14_BadPageKeepsView ==
    AfterFailedFetch =>
        /\ app.current_page = screen.page
        /\ app.current_page_ops = screen.ops

----------------------------------------------------------------------------
(* Pagination of books of three chapters (SpecPaginate): wrap_runs, then   *)
(* paginate_lines.                                                         *)

\* Chapters of one, two and three runs that each end with a line break,
\* and chapters without a line break.
PaginatePatterns ==
    { <<TextRun(<<0, 10>>, Regular)>>,                               \* "x\n"
      <<TextRun(<<0, 10>>, Regular), TextRun(<<0, 10>>, Regular)>>,  \* "x\n", "x\n"
      <<TextRun(<<0, 10>>, Regular), TextRun(<<0, 10>>, Regular),
        TextRun(<<0, 10>>, Regular)>>,
      <<TextRun(<<0>>, Regular)>>,                                   \* "x"
      <<TextRun(<<32>>, Regular)>> }                                 \* " "

MaxChapters == 3

PaginateBooks ==
    UNION { { [c1 \in 1..n |-> [spine_index |-> c1 - 1,
                                runs |-> Instantiate(ps[c1], c1 - 1)]] :
                ps \in [1..n -> PaginatePatterns] } : n \in {0, MaxChapters} }

\* Four lines, two lines and one line per page; line_height 0; margins
\* taller than the screen; and a margin whose double is not a u16.
PaginateOptions ==
    { RenderOptions(480, 200, 16, 60, 20, 10, 14, 2),
      RenderOptions(480, 100, 16, 30, 20, 10, 14, 2),
      RenderOptions(480, 100, 16, 40, 20, 10, 14, 2),
      RenderOptions(480, 800, 16, 60, 0, 10, 14, 2),
      RenderOptions(480, 100, 16, 60, 20, 10, 14, 2),
      RenderOptions(480, 800, 16, 32768 + 360, 20, 10, 14, 2) }

InitPaginate ==
    /\ pc = "input"
    /\ \E b \in Builds : overflow_checks = b[1] /\ usize_bits = b[2]
    /\ spine_runs \in PaginateBooks
    /\ options \in PaginateOptions
    /\ metadata = SmallMetadata
    /\ glyphs = <<>>
    /\ toc_entries = <<>>
    /\ cache = NoCache
    /\ rasters = <<>>
    /\ lines = <<>>
    /\ pages = <<>>
    /\ spine_to_page = <<>>
    /\ file = <<>>
    /\ book = None
    /\ trbk = NoSession
    /\ info = None
    /\ page = None
    /\ io_log = <<>>
    /\ records = <<>>
    /\ stream = <<>>
    /\ ops = None
    /\ app = NoApp
    /\ screen = Blank

NextPaginate == Wrap \/ Paginate

SpecPaginate == InitPaginate /\ [][NextPaginate]_vars

----------------------------------------------------------------------------
(* Properties of paginate_lines (under SpecPaginate).                      *)

\* The lines on a page: each line on it is followed by one "\n" run.
LinesOn(p) == Cardinality({ i \in DOMAIN p.runs : p.runs[i].text = NEWLINE })

RECURSIVE LinesThrough(_)
LinesThrough(k) == IF k = 0 THEN 0 ELSE LinesThrough(k - 1) + LinesOn(pages[k])

\* The page (from 1) that holds line i (from 1).
PageOfLine(i) == CHOOSE k \in DOMAIN pages : LinesThrough(k - 1) < i /\ i <= LinesThrough(k)

\* paginate_lines has returned pages for lines.
PagesOfLines == pc = "paginated" /\ lines # <<>>

\* C12: forced break at chapter boundary.  The pages hold the lines in
\* order, and two lines in a row whose chapter indices differ are never on
\* the same page: the page of the first is pushed, with the chapter index
\* of its lines, before the second is placed, full or not.
C12_ChapterBreak ==
    PagesOfLines =>
        /\ LinesThrough(Len(pages)) = Len(lines)
        /\ \A i \in DOMAIN lines :
              pages[PageOfLine(i)].spine_index = lines[i].spine_index
        /\ \A i \in 1..(Len(lines) - 1) :
              lines[i].spine_index # lines[i + 1].spine_index
                  => PageOfLine(i + 1) = PageOfLine(i) + 1

\* Three chapters, four lines to a page, the second chapter two lines long:
\* its page is pushed half full and the third chapter starts the next page.
C12_Witness ==
    /\ PagesOfLines
    /\ lines_per_page(options) = [kind |-> "Ok", value |-> 4]
    /\ Len(lines) = 4
    /\ <<lines[1].spine_index, lines[2].spine_index, lines[3].spine_index,
         lines[4].spine_index>> = <<0, 1, 1, 2>>
    /\ Len(pages) = 3
    /\ LinesOn(pages[2]) = 2
    /\ pages[3].spine_index = 2

\* The lines a page must hold at most: max(1, (screen_height - 2 margin_y) /
\* line_height), with the quotient taken as 0 where it is not defined.
PageBudget ==
    Max(1, IF options.line_height = 0 \/ options.screen_height < 2 * options.margin_y
           THEN 0
           ELSE (options.screen_height - 2 * options.margin_y) \div options.line_height)

\* C13: page budget.  paginate_lines returns pages whatever the options
\* are: one placeholder page for no lines, and otherwise pages of at least
\* one and at most lines_per_page lines.
C13_PageBudget ==
    pc \notin {"input", "wrapped"} =>
        /\ pc = "paginated"
        /\ Len(pages) >= 1
        /\ lines = <<>> => pages = <<RunLine(-1, <<TextRun(EMPTY_TEXT, Regular)>>)>>
        /\ lines # <<>> =>
              \A k \in DOMAIN pages : LinesOn(pages[k]) \in 1..PageBudget

----------------------------------------------------------------------------
(* The interpreter on streams that end inside their last record (SpecCut). *)

MaxCut == 4   \* bytes missing from the end of a stream

\* The streams of records, whole or with up to MaxCut bytes of the last
\* record missing, at least one byte of it being left.
InitCut ==
    /\ pc = "stream"
    /\ AtRest
    /\ file = <<>>
    /\ book = None
    /\ trbk = NoSession
    /\ info = None
    /\ page = None
    /\ io_log = <<>>
    /\ records \in RecordStreams
    /\ \E cut \in 0..MaxCut :
          /\ cut > 0 => records # <<>> /\ cut < Len(RecordBytes(records[Len(records)]))
          /\ stream = Truncate(StreamFrom(records, 1), Len(StreamFrom(records, 1)) - cut)
    /\ ops = None
    /\ app = NoApp
    /\ screen = Blank

NextCut == ParseOps

SpecCut == InitCut /\ [][NextCut]_vars

\* The bytes missing from the stream, and those left of its last record.
Cut == Len(StreamFrom(records, 1)) - Len(stream)
Kept == Len(RecordBytes(records[Len(records)])) - Cut

\* The records that are whole in the stream.
WholeRecords == IF Cut = 0 THEN Len(records) ELSE Len(records) - 1

\* A 0x01 record with fewer than 6 payload bytes, or with bytes that are
\* not UTF-8 after the 6-byte prefix.
Malformed(r) ==
    /\ ~IsTextRecord(r)
    /\ r.opcode = 1
    /\ \/ Len(r.payload) < 6
       \/ ~from_utf8(SubSeq(r.payload, 7, Len(r.payload))).ok

SomeMalformed == \E j \in 1..WholeRecords : Malformed(records[j])

\* The last record has its 3-byte header and not all of its payload.
LengthExceeds == Cut > 0 /\ Kept >= 3

\* C18: malformed records are Decode errors.  A declared length beyond the
\* bytes that remain, a 0x01 record with under 6 payload bytes, and a 0x01
\* record whose text is not UTF-8 each give Decode without any ops, and a
\* stream of whole records without such a record gives ops.
C18_MalformedRecords ==
    ops # None =>
        /\ (SomeMalformed \/ LengthExceeds) => ops = Err("Decode")
        /\ (Cut = 0 /\ ~SomeMalformed) => ops.kind = "Ok"

\* A good 0x01 record, then a record whose payload is cut short: Decode.
C18_Witness ==
    /\ ops = Err("Decode")
    /\ Len(records) = 2
    /\ IsTextRecord(records[1])
    /\ ~SomeMalformed
    /\ LengthExceeds

\* C19: truncated page data is a Decode error.  A stream that ends inside
\* a record, in its payload or in its 3-byte header, gives Decode.
C19_TruncatedStream ==
    (ops # None /\ Cut > 0) => ops = Err("Decode")

----------------------------------------------------------------------------
(* A converted book in the viewer (SpecRender): the conversion with the    *)
(* glyph table it builds from the text, then the viewer on the file.       *)

\* A font at one size: the advance of a char (metrics.advance_width.round())
\* and the line height that comes from its line metrics.
FontInputs ==
    { [base |-> 4, spread |-> 5, line_height |-> 20],
      [base |-> 12, spread |-> 1, line_height |-> 400] }

font_advance(font, style_id, cp) == font.base + ((cp + style_id) % font.spread)

\* collect_used_codepoints, for one style.
collect_used_codepoints(spines, style_id) ==
    UNION { { spines[s].runs[r].text[i] : i \in DOMAIN spines[s].runs[r].text } :
            <<s, r>> \in { sr \in (DOMAIN spines) \X (1..4) :
                             /\ sr[2] \in DOMAIN spines[sr[1]].runs
                             /\ style_id_from_style(spines[sr[1]].runs[sr[2]].style)
                                    = style_id } }

used_styles(spines) == { st \in 0..3 : collect_used_codepoints(spines, st) # {} }

\* The codepoints of a BTreeSet in iteration order.
RECURSIVE ascending(_)
ascending(cps) ==
    IF cps = {} THEN <<>>
    ELSE LET least == CHOOSE c \in cps : \A d \in cps : c <= d
         IN  <<least>> \o ascending(cps \ {least})

\* build_glyphs: for each style, in the order the HashMap gives them, a
\* glyph for every used codepoint.
RECURSIVE build_glyphs(_, _, _, _)
build_glyphs(font, spines, order, i) ==
    IF i > Len(order) THEN <<>>
    ELSE LET cps == ascending(collect_used_codepoints(spines, order[i]))
         IN  [k \in DOMAIN cps |->
                 Glyph(cps[k], order[i], 1, 1, font_advance(font, order[i], cps[k]),
                       0, 1, <<128>>)]
             \o build_glyphs(font, spines, order, i + 1)

\* The orders in which a HashMap may give the used styles.
StyleOrders(spines) ==
    { o \in [1..Cardinality(used_styles(spines)) -> used_styles(spines)] :
        \A i, j \in DOMAIN o : i # j => o[i] # o[j] }

\* convert_epub_to_trbk_multi, the options: the defaults with char_width,
\* line_height and word_spacing from the font.
conversion_options(font) ==
    LET char_width == Max(font_advance(font, 0, 110), 1)
    IN  RenderOptions(480, 800, 16, 60, font.line_height, char_width, 14,
                      Max(char_width \div 3, 2))

\* Chapters, one of them with a tab and no space between its words.
RenderPatterns ==
    ChapterPatterns \cup { <<TextRun(<<0, 9, 0>>, Regular), TextRun(<<0>>, BoldStyle)>> }

RenderBooks ==
    UNION { { [c1 \in 1..n |-> [spine_index |-> c1 - 1,
                                runs |-> Instantiate(ps[c1], c1 - 1)]] :
                ps \in [1..n -> RenderPatterns] } : n \in 0..MaxSpines }

InitRender ==
    /\ pc = "input"
    /\ \E b \in Builds : overflow_checks = b[1] /\ usize_bits = b[2]
    /\ spine_runs \in RenderBooks
    /\ \E font \in FontInputs :
          /\ options = conversion_options(font)
          /\ \E order \in StyleOrders(spine_runs) :
                glyphs = build_glyphs(font, spine_runs, order, 1)
    /\ metadata = SmallMetadata
    /\ toc_entries = <<>>
    /\ cache = NoCache
    /\ rasters = <<>>
    /\ lines = <<>>
    /\ pages = <<>>
    /\ spine_to_page = <<>>
    /\ file = <<>>
    /\ book = None
    /\ trbk = NoSession
    /\ info = None
    /\ page = None
    /\ io_log = <<>>
    /\ records = <<>>
    /\ stream = <<>>
    /\ ops = None
    /\ app = NoApp
    /\ screen = Blank

NextRender ==
    \/ Wrap
    \/ Paginate
    \/ MapSpines
    \/ WriteTrbk
    \/ OpenSelected
    \/ NoButton
    \/ BookNext
    \/ BookPrev
    \/ Draw

SpecRender == InitRender /\ [][NextRender]_vars

\* The op before op k of the page on the display is on the same line.
SameLine(k) == k > 1 /\ screen.ops.ops[k - 1].y = screen.ops.ops[k].y

\* Where the renderer's pen is after it has drawn op k.
PenAfter(k) ==
    IF screen.runs[k] = <<>> THEN screen.ops.ops[k].x
    ELSE screen.runs[k][Len(screen.runs[k])].pen

\* The advance of the chars of op k by the glyph table the converter built
\* and options.char_width.
TableAdvance(k) ==
    advance_sum(screen.ops.ops[k].text, screen.ops.ops[k].style, options,
                build_advance_map(glyphs))

RECURSIVE LineAdvance(_)
LineAdvance(k) == IF SameLine(k) THEN LineAdvance(k - 1) + TableAdvance(k - 1) ELSE 0

\* C20: encode-time and decode-time pen advance agree.  On the page on the
\* display the x of every run is margin_x plus the advances, by the glyph
\* table or char_width, of the runs before it on its line, and it is where
\* the renderer's pen is after drawing the run before it.
C20_PenAdvanceAgrees ==
    PageOnDisplay =>
        \A k \in DOMAIN screen.ops.ops :
            /\ screen.ops.ops[k].x = options.margin_x + LineAdvance(k)
            /\ SameLine(k) => screen.ops.ops[k].x = PenAfter(k - 1)

\* A page on the display with a line of three runs, the middle one a space
\* without a glyph.
C20_Witness ==
    /\ PageOnDisplay
    /\ \E k \in DOMAIN screen.ops.ops :
          /\ SameLine(k) /\ SameLine(k - 1)
          /\ screen.ops.ops[k - 1].text = <<32>>
          /\ find_glyph(app.current_book.info.glyphs, screen.ops.ops[k - 1].style, 32) = 0
          /\ find_glyph(app.current_book.info.glyphs, screen.ops.ops[k].style,
                        screen.ops.ops[k].text[1]) # 0
          /\ screen.ops.ops[k].x > options.margin_x + options.char_width

----------------------------------------------------------------------------
(* Properties of the files write_trbk writes.                              *)

\* write_trbk has written the file.
Written == pc = "written" /\ Len(file) >= FIXED_HEADER_SIZE

\* C21: version byte.  The version byte of a written file is 2 when the
\* book has at least one glyph and 1 when it has none.
C21_VersionByte ==
    Written => file[5] = (IF glyphs # <<>> THEN 2 ELSE 1)

\* Where the sections of the written file start: the metadata block follows
\* the fixed header, then the TOC block, the page offset index, the page
\* data and the glyph table.
ActualTocStart == FIXED_HEADER_SIZE + Len(metadata_bytes(metadata, options))
ActualLutStart ==
    ActualTocStart + (IF toc_entries # <<>> THEN Len(toc_bytes(toc_entries)) ELSE 0)
ActualPageDataStart == ActualLutStart + 4 * Len(pages)
ActualGlyphTableStart == Len(file) - Len(write_glyph_table(glyphs))

\* C22: section offsets match the bytes written.  Each offset field of the
\* header is the position in the file where its section starts, and the
\* page offset index starts at 0 and never decreases.
C22_SectionOffsets ==
    Written =>
        /\ read_u16(file, 6).value = ActualTocStart
        /\ read_u32(file, AT_TOC_OFFSET).value = W(ActualTocStart)
        /\ read_u32(file, AT_PAGE_LUT_OFFSET).value = W(ActualLutStart)
        /\ read_u32(file, AT_PAGE_DATA_OFFSET).value = W(ActualPageDataStart)
        /\ read_u32(file, AT_GLYPH_TABLE_OFFSET).value = W(ActualGlyphTableStart)
        /\ Len(pages) > 0 => read_u32(file, ActualLutStart).value = W(0)
        /\ \A i \in 1..(Len(pages) - 1) :
              W_le(read_u32(file, ActualLutStart + 4 * (i - 1)).value,
                   read_u32(file, ActualLutStart + 4 * i).value)

----------------------------------------------------------------------------
(* Line wrapping (SpecWrap): wrap_runs on narrow screens, with words wider *)
(* than a line, words of no width and line breaks inside a run.            *)

\* "a", "aaaa", "a a", "aa a", a zero-width space (U+200B, not White_Space),
\* "a\na" and "a\n".
WrapTexts ==
    { <<97>>, <<97, 97, 97, 97>>, <<97, 32, 97>>, <<97, 97, 32, 97>>,
      <<8203>>, <<97, 10, 97>>, <<97, 10>> }

MaxRuns == 3

\* One chapter of one to MaxRuns runs, and two chapters of one run.
WrapBooks ==
    UNION { { <<[spine_index |-> 0,
                 runs |-> [r \in 1..n |-> TextRun(ts[r], Regular)]]>> :
                ts \in [1..n -> WrapTexts] } : n \in 1..MaxRuns }
    \cup { <<[spine_index |-> 0, runs |-> <<TextRun(ts[1], Regular)>>],
             [spine_index |-> 1, runs |-> <<TextRun(ts[2], Regular)>>]>> :
             ts \in [1..2 -> WrapTexts] }

\* No font (every char is char_width wide), and a font whose zero-width
\* space has no advance.
WrapGlyphs ==
    { <<>>,
      <<Glyph(97, 0, 1, 1, 10, 0, 1, <<128>>), Glyph(8203, 0, 0, 0, 0, 0, 0, <<>>)>> }

\* Lines of 30, 50 and 448 pixels.
WrapOptions ==
    { RenderOptions(62, 800, 16, 60, 20, 10, 14, 2),
      RenderOptions(82, 800, 16, 60, 20, 10, 14, 2),
      RenderOptions(480, 800, 16, 60, 20, 10, 14, 2) }

InitWrap ==
    /\ pc = "input"
    /\ overflow_checks = TRUE
    /\ usize_bits = 64
    /\ spine_runs \in WrapBooks
    /\ options \in WrapOptions
    /\ glyphs \in WrapGlyphs
    /\ metadata = SmallMetadata
    /\ toc_entries = <<>>
    /\ cache = NoCache
    /\ rasters = <<>>
    /\ lines = <<>>
    /\ pages = <<>>
    /\ spine_to_page = <<>>
    /\ file = <<>>
    /\ book = None
    /\ trbk = NoSession
    /\ info = None
    /\ page = None
    /\ io_log = <<>>
    /\ records = <<>>
    /\ stream = <<>>
    /\ ops = None
    /\ app = NoApp
    /\ screen = Blank

NextWrap == Wrap

SpecWrap == InitWrap /\ [][NextWrap]_vars

----------------------------------------------------------------------------
(* Properties of wrap_runs (under SpecWrap).                               *)

Wrapped == pc = "wrapped"

RECURSIVE Flatten(_)
Flatten(seqs) == IF seqs = <<>> THEN <<>> ELSE seqs[1] \o Flatten(Tail(seqs))

\* The words of a run, each with the style of the run.
RunTokens(run) ==
    LET tokens == split_whitespace(run.text)
    IN  [i \in DOMAIN tokens |-> TextRun(tokens[i], run.style)]

\* The words of the book, in reading order.
InputTokens ==
    Flatten([s \in DOMAIN spine_runs |->
                Flatten([r \in DOMAIN spine_runs[s].runs |->
                            RunTokens(spine_runs[s].runs[r])])])

IsSpace(run) == run.text = <<32>>

\* The words of a line: its runs but the spaces put between them.
LineTokens(line) == SelectSeq(line.runs, LAMBDA run : ~IsSpace(run))

\* The words of the lines, in order.
OutputTokens == Flatten([k \in DOMAIN lines |-> LineTokens(lines[k])])

MaxWidth == Max(options.screen_width - options.margin_x * 2, 1)

TokenWidth(run) ==
    measure_token_width(run.text, run.style, options, build_advance_map(glyphs))

SpaceWidth(style) == TokenWidth(TextRun(<<32>>, style)) + options.word_spacing

RECURSIVE RunsWidth(_)
RunsWidth(runs) ==
    IF runs = <<>> THEN 0
    ELSE (IF IsSpace(runs[1]) THEN SpaceWidth(runs[1].style) ELSE TokenWidth(runs[1]))
         + RunsWidth(Tail(runs))

\* The width of a line: its words and the spaces between them.
LineWidth(line) == RunsWidth(line.runs)

NoLineBreak ==
    \A s \in DOMAIN spine_runs : \A r \in DOMAIN spine_runs[s].runs :
        ~contains_newline(spine_runs[s].runs[r].text)

\* C23: greedy wrap.  The lines hold the words of the book in order, none
\* dropped or split; a line of more than one word is not wider than
\* max_width; and, where no line break ends a line, a line ends only
\* because the next word with its space did not fit on it.
C23_GreedyWrap ==
    Wrapped =>
        /\ OutputTokens = InputTokens
        /\ \A k \in DOMAIN lines :
              Len(LineTokens(lines[k])) > 1 => LineWidth(lines[k]) <= MaxWidth
        /\ NoLineBreak =>
              \A k \in 1..(Len(lines) - 1) :
                 LineWidth(lines[k]) + SpaceWidth(lines[k + 1].runs[1].style)
                     + TokenWidth(lines[k + 1].runs[1]) > MaxWidth

\* The words on the first k lines.
RECURSIVE TokensThrough(_)
TokensThrough(k) ==
    IF k = 0 THEN 0 ELSE TokensThrough(k - 1) + Len(LineTokens(lines[k]))

\* The line that holds word n of the book.
LineOf(n) == CHOOSE k \in DOMAIN lines : TokensThrough(k - 1) < n /\ n <= TokensThrough(k)

\* The words of the chapters before chapter s.
RECURSIVE TokensBeforeSpine(_)
TokensBeforeSpine(s) ==
    IF s = 1 THEN 0
    ELSE TokensBeforeSpine(s - 1)
         + Len(Flatten([r \in DOMAIN spine_runs[s - 1].runs |->
                           RunTokens(spine_runs[s - 1].runs[r])]))

\* The words of the book before char i of run r of chapter s.
TokensBefore(s, r, i) ==
    TokensBeforeSpine(s)
    + Len(Flatten([q \in 1..(r - 1) |-> RunTokens(spine_runs[s].runs[q])]))
    + Len(split_whitespace(SubSeq(spine_runs[s].runs[r].text, 1, i - 1)))

\* The line breaks of the book: chapter, run and char position.
LineBreaks ==
    { b \in (DOMAIN spine_runs) \X (1..MaxRuns) \X (1..4) :
        /\ b[2] \in DOMAIN spine_runs[b[1]].runs
        /\ b[3] \in DOMAIN spine_runs[b[1]].runs[b[2]].text
        /\ spine_runs[b[1]].runs[b[2]].text[b[3]] = 10 }

\* Words on both sides of line break b.
BetweenWords(b) ==
    /\ TokensBefore(b[1], b[2], b[3]) >= 1
    /\ TokensBefore(b[1], b[2], b[3]) < Len(InputTokens)

\* C24: a newline forces a line break.  The last word before a newline of
\* a run and the first word after it are on different lines.
C24_NewlineBreaksLine ==
    (Wrapped /\ OutputTokens = InputTokens) =>
        \A b \in LineBreaks :
            BetweenWords(b) =>
                LineOf(TokensBefore(b[1], b[2], b[3]))
                    # LineOf(TokensBefore(b[1], b[2], b[3]) + 1)

----------------------------------------------------------------------------
(* The table of contents of a conversion (SpecToc): wrap_runs,             *)
(* paginate_lines, compute_spine_page_map, then build_toc_entries.         *)

\* let toc_entries = build_toc_entries(&cache, &spine_to_page);
BuildToc ==
    /\ pc = "mapped"
    /\ toc_entries' = build_toc_entries(cache, spine_to_page)
    /\ pc' = "toc"
    /\ UNCHANGED <<overflow_checks, usize_bits, spine_runs, options, metadata, glyphs,
                   cache, rasters, lines, pages, spine_to_page, file, decoder_state, ops_state,
                   viewer_state>>

\* The href of chapter c1 (1-based): "o/a", "b", "c/d/", "o/d", ...
SpineHref(c1) ==
    IF c1 % 3 = 1 THEN <<111, 47, 96 + c1>>
    ELSE IF c1 % 3 = 2 THEN <<96 + c1>>
    ELSE <<96 + c1, 47, 100, 47>>

\* A TOC entry of the source that points at chapter s: s = -1 when its href
\* is not in the spine, s = MaxChapters when the cache names a chapter the
\* spine does not have.
SourceTocEntry(s) == CacheTocEntry(<<84, 49 + s>>, s % 2, s)

\* No TOC, and TOCs of one and two entries.
SourceTocs ==
    UNION { { [i \in 1..n |-> SourceTocEntry(ss[i])] :
                ss \in [1..n -> -1..MaxChapters] } : n \in 0..2 }

InitToc ==
    /\ pc = "input"
    /\ overflow_checks = TRUE
    /\ usize_bits = 64
    /\ spine_runs \in PaginateBooks
    /\ options = RenderOptions(480, 100, 16, 30, 20, 10, 14, 2)
    /\ metadata = SmallMetadata
    /\ glyphs = <<>>
    /\ toc_entries = <<>>
    /\ \E toc \in SourceTocs :
          cache = BookCache([c1 \in DOMAIN spine_runs |-> CacheSpineEntry(SpineHref(c1))],
                            toc)
    /\ rasters = <<>>
    /\ lines = <<>>
    /\ pages = <<>>
    /\ spine_to_page = <<>>
    /\ file = <<>>
    /\ book = None
    /\ trbk = NoSession
    /\ info = None
    /\ page = None
    /\ io_log = <<>>
    /\ records = <<>>
    /\ stream = <<>>
    /\ ops = None
    /\ app = NoApp
    /\ screen = Blank

NextToc ==
    \/ Wrap
    \/ Paginate
    \/ MapSpines
    \/ BuildToc

SpecToc == InitToc /\ [][NextToc]_vars

----------------------------------------------------------------------------
(* Properties of the table of contents (under SpecToc).                    *)

TocBuilt == pc = "toc"

\* The chapter of page p (0-based), as the page is tagged.
ChapterOf(p) == pages[p + 1].spine_index

\* Chapter c (0-based) has a page.
HasPage(c) == \E p \in 0..(Len(pages) - 1) : ChapterOf(p) = c

\* The first page of chapter c.
FirstPage(c) ==
    CHOOSE p \in 0..(Len(pages) - 1) :
        ChapterOf(p) = c /\ \A q \in 0..(p - 1) : ChapterOf(q) # c

\* A source entry whose chapter is a chapter of the spine and has a page.
MapsToPage(entry) ==
    /\ entry.spine_index \in 0..(Len(cache.spine) - 1)
    /\ HasPage(entry.spine_index)

\* The source entries that map to a page, in order, each at the first page
\* of its chapter.
KeptEntries ==
    LET kept == SelectSeq(cache.toc, MapsToPage)
    IN  [i \in DOMAIN kept |->
            TocEntry(kept[i].title, FirstPage(kept[i].spine_index), kept[i].level)]

\* C25: TOC targets.  spine_to_page[c] is the first page of chapter c, or
\* -1 when the chapter has no page; the TOC written holds the source
\* entries that map to a page, in order, each with its chapter's first
\* page; and every entry names a page of the book.
C25_TocTargets ==
    TocBuilt =>
        /\ Len(spine_to_page) = Len(cache.spine)
        /\ \A c \in 0..(Len(cache.spine) - 1) :
              spine_to_page[c + 1] = (IF HasPage(c) THEN FirstPage(c) ELSE -1)
        /\ KeptEntries # <<>> => toc_entries = KeptEntries
        /\ \A i \in DOMAIN toc_entries : toc_entries[i].page_index < Len(pages)

\* A TOC of two source entries, the first dropped for a chapter without a
\* page, the second kept at a page that is not the first of the book.
C25_Witness ==
    /\ TocBuilt
    /\ Len(cache.toc) = 2
    /\ cache.toc[1].spine_index \in 0..(Len(cache.spine) - 1)
    /\ ~MapsToPage(cache.toc[1])
    /\ Len(toc_entries) = 1
    /\ toc_entries[1].title = cache.toc[2].title
    /\ toc_entries[1].page_index > 0

\* The chapters (1-based) that have a page.
ChaptersWithPage == SelectSeq([c1 \in DOMAIN cache.spine |-> c1], LAMBDA c1 : HasPage(c1 - 1))

\* One entry for each chapter that has a page: level 0, titled with the
\* last path segment of the chapter's href.
ChapterEntries ==
    [i \in DOMAIN ChaptersWithPage |->
        TocEntry(last_segment(cache.spine[ChaptersWithPage[i]].href),
                 FirstPage(ChaptersWithPage[i] - 1), 0)]

\* C26: synthesized TOC fallback.  Without source TOC entries the TOC
\* written has one entry per chapter, level 0, titled with the last path
\* segment of the chapter's href; with source TOC entries it has no
\* synthesized entry, only source entries.
C26_SynthesizedToc ==
    TocBuilt =>
        /\ cache.toc = <<>> => toc_entries = ChapterEntries
        /\ cache.toc # <<>> => toc_entries = KeptEntries

----------------------------------------------------------------------------
(* Glyph bitmaps (SpecGlyph): build_glyphs packs the font's coverage       *)
(* bitmap of 'a', write_trbk stores it, the viewer opens the file and      *)
(* draws the page "a".                                                     *)

\* let glyphs = build_glyphs(&font_set, *size, &used)?;
BuildGlyphs ==
    /\ pc = "raster"
    /\ glyphs' = [k \in DOMAIN rasters |-> glyph_of_raster(rasters[k])]
    /\ pc' = "input"
    /\ UNCHANGED <<overflow_checks, usize_bits, spine_runs, options, metadata,
                   toc_entries, cache, rasters, lines, pages, spine_to_page, file,
                   decoder_state, ops_state, viewer_state>>

\* Coverage of n samples: every other sample full, samples just below and
\* just above the threshold, and full coverage.
CoveragePatterns(n) ==
    { [i \in 1..n |-> IF i % 2 = 1 THEN 255 ELSE 0],
      [i \in 1..n |-> IF i % 3 = 0 THEN 128 ELSE 127],
      [i \in 1..n |-> 255] }

\* Bitmaps of 3 x 3, 2 x 5, 8 x 1 and 0 x 0 pixels, and bitmaps that are
\* 256 and 257 pixels wide or 256 pixels high (a large font size).
RasterSizes == { <<3, 3>>, <<2, 5>>, <<8, 1>>, <<0, 0>>, <<256, 1>>, <<257, 1>>, <<1, 256>> }

RasterInputs ==
    UNION { { <<Raster(97, 0, wh[1], wh[2], 1, -1, wh[1] + 1, c)>> :
                c \in CoveragePatterns(wh[1] * wh[2]) } : wh \in RasterSizes }

InitGlyph ==
    /\ pc = "raster"
    /\ \E b \in Builds : overflow_checks = b[1] /\ usize_bits = b[2]
    /\ spine_runs = OneChapter
    /\ options = DefaultOptions
    /\ metadata = SmallMetadata
    /\ glyphs = <<>>
    /\ toc_entries = <<>>
    /\ cache = NoCache
    /\ rasters \in RasterInputs
    /\ lines = <<>>
    /\ pages = <<>>
    /\ spine_to_page = <<>>
    /\ file = <<>>
    /\ book = None
    /\ trbk = NoSession
    /\ info = None
    /\ page = None
    /\ io_log = <<>>
    /\ records = <<>>
    /\ stream = <<>>
    /\ ops = None
    /\ app = NoApp
    /\ screen = Blank

NextGlyph ==
    \/ BuildGlyphs
    \/ Wrap
    \/ Paginate
    \/ MapSpines
    \/ WriteTrbk
    \/ OpenSelected
    \/ NoButton
    \/ Draw

SpecGlyph == InitGlyph /\ [][NextGlyph]_vars

----------------------------------------------------------------------------
(* Properties of glyph bitmaps (under SpecGlyph).                          *)

\* The page "a" is on the display, drawn with the glyph of the file.
GlyphOnDisplay ==
    /\ PageOnDisplay
    /\ Len(app.current_book.info.glyphs) = 1
    /\ Len(screen.runs) = 1
    /\ Len(screen.runs[1]) = 1

\* The glyph record as the viewer read it from the file.
StoredGlyph == app.current_book.info.glyphs[1]

\* Coverage sample i (0-based) of the rasterized char.
Sample(i) == rasters[1].coverage[i + 1]

\* Bit `bit` of byte `byte` (0-based) of the stored bitmap.
StoredBit(byte, bit) == (StoredGlyph.bitmap[byte + 1] \div (2 ^ bit)) % 2

\* The pixels the coverage bitmap asks for, on the display: the glyph's
\* origin is the pen plus x_offset, its top the baseline minus y_offset.
CoveragePixels ==
    { <<screen.runs[1][1].at + StoredGlyph.x_offset + rc[2],
        (screen.ops.ops[1].y - StoredGlyph.y_offset) + rc[1]>> :
        rc \in { rc \in (0..(rasters[1].height - 1)) \X (0..(rasters[1].width - 1)) :
                   Sample(rc[1] * rasters[1].width + rc[2]) > 127 } }

\* C27: glyph bitmap packing.  The stored bitmap has ceil(width*height/8)
\* bytes for the width and height of the glyph record; bit 7 - (i mod 8)
\* of byte i div 8 is set iff coverage sample i is above 127 and the
\* padding bits are 0; and the renderer paints pixel (row, col) iff
\* coverage sample row*width + col is above 127.
C27_BitmapPacking ==
    GlyphOnDisplay =>
        /\ Len(StoredGlyph.bitmap) = (StoredGlyph.width * StoredGlyph.height + 7) \div 8
        /\ \A i \in 0..(8 * Len(StoredGlyph.bitmap) - 1) :
              StoredBit(i \div 8, 7 - (i % 8)) = 1
                  <=> (i < Len(rasters[1].coverage) /\ Sample(i) > 127)
        /\ screen.runs[1][1].pixels = CoveragePixels

----------------------------------------------------------------------------
(* The streaming session over several entries of the card (SpecSession):   *)
(* open_trbk, trbk_page and close_trbk in any order.  The session holds    *)
(* the name of its entry, and trbk_page opens the file of that name.       *)

CardLayouts ==
    << FullLayout,
       Layout(2, TRUE, 2, 20, <<>>, <<AbStream>>, <<>>),
       Layout(2, TRUE, 2, 20, <<>>, <<>>, <<>>) >>

\* The files on the card: three books of two, one and no pages, a file
\* with a wrong magic and a file cut short inside its header.
Card ==
    [n \in DOMAIN CardLayouts |-> LayoutBytes(CardLayouts[n])]
    \o << Patch(LayoutBytes(FullLayout), 0, <<0>>),
          Truncate(LayoutBytes(FullLayout), 47) >>

\* SdImageSource::open_trbk(path, entry).
OpenEntry(name) ==
    /\ pc = "card"
    /\ LET r == open_trbk(Card[name])
       IN  /\ io_log' = r.log
           /\ IF IsOk(r)
              THEN /\ info' = [kind |-> "Ok", info |-> r.info, entry |-> name]
                   /\ trbk' = [open |-> TRUE,
                               name |-> name,
                               page_offsets |-> r.page_offsets,
                               page_data_offset |-> r.page_data_offset,
                               glyph_table_offset |-> r.glyph_table_offset,
                               info |-> r.info]
              ELSE /\ info' = [kind |-> r.kind, entry |-> name]
                   /\ trbk' = trbk
    /\ page' = None
    /\ UNCHANGED <<pc, encoder_inputs, lines, pages, spine_to_page, file, book, ops_state,
                   viewer_state>>

\* SdImageSource::trbk_page(page_index): the file read is the session's.
FetchPage(page_index) ==
    /\ pc = "card"
    /\ LET r == trbk_page(IF trbk.open THEN Card[trbk.name] ELSE <<>>, trbk, page_index)
       IN  /\ io_log' = r.log
           /\ page' = PageResult(r, page_index)
    /\ UNCHANGED <<pc, encoder_inputs, lines, pages, spine_to_page, file, book, trbk,
                   info, ops_state, viewer_state>>

\* SdImageSource::close_trbk.
CloseSession ==
    /\ pc = "card"
    /\ trbk' = NoSession
    /\ page' = None
    /\ io_log' = <<>>
    /\ UNCHANGED <<pc, encoder_inputs, lines, pages, spine_to_page, file, book, info,
                   ops_state, viewer_state>>

InitSession ==
    /\ pc = "card"
    /\ \E b \in Builds : overflow_checks = b[1] /\ usize_bits = b[2]
    /\ spine_runs = <<>>
    /\ options = DefaultOptions
    /\ metadata = SmallMetadata
    /\ glyphs = <<>>
    /\ toc_entries = <<>>
    /\ cache = NoCache
    /\ rasters = <<>>
    /\ lines = <<>>
    /\ pages = <<>>
    /\ spine_to_page = <<>>
    /\ file = <<>>
    /\ book = None
    /\ trbk = NoSession
    /\ info = None
    /\ page = None
    /\ io_log = <<>>
    /\ records = <<>>
    /\ stream = <<>>
    /\ ops = None
    /\ app = NoApp
    /\ screen = Blank

NextSession ==
    \/ \E name \in DOMAIN Card : OpenEntry(name)
    \/ \E page_index \in 0..MaxPageIndex : FetchPage(page_index)
    \/ CloseSession

SpecSession == InitSession /\ [][NextSession]_vars

----------------------------------------------------------------------------
(* Properties of the session (under SpecSession).                          *)

\* The page count of book n of the card.
PagesOf(n) == Len(CardLayouts[n].streams)

\* Page i (0-based) of book n of the card, as its instruction stream reads.
PageOf(n, i) ==
    [kind |-> "Ok", index |-> i, ops |-> parse_trbk_page_ops(CardLayouts[n].streams[i + 1]).ops]

\* The last page fetched is what the session's book gives: Decode without
\* a session and past its last page, else the page of that book.
ServedFromSession ==
    page # None =>
        IF ~trbk.open THEN page.kind = "Decode"
        ELSE IF page.index >= PagesOf(trbk.name) THEN page.kind = "Decode"
        ELSE page = PageOf(trbk.name, page.index)

\* A step changes the session only by closing it or by a successful open,
\* which makes it the session of the entry opened; a failed open leaves it
\* as it was.
SessionStep ==
    /\ (trbk' # trbk /\ trbk'.open) =>
           (info'.kind = "Ok" /\ trbk'.name = info'.entry /\ trbk'.info = info'.info)
    /\ (info' # info /\ info'.kind = "Ok") =>
           (trbk'.open /\ trbk'.name = info'.entry /\ info'.entry \in DOMAIN CardLayouts)
    /\ (info' # info /\ info'.kind # "Ok") =>
           (trbk' = trbk /\ info'.entry \notin DOMAIN CardLayouts)

\* C28: session lifecycle.  trbk_page gives Decode when no book is open and
\* when page_index is not below the page count; a successful open_trbk
\* replaces the session; a failed open_trbk leaves it unchanged, and later
\* pages are those of the book opened before.
C28_SessionLifecycle == [](ServedFromSession) /\ [][SessionStep]_vars

\* The second page of the first book, fetched after the open of the file
\* with the wrong magic failed.
C28_Witness ==
    /\ info # None
    /\ info.kind # "Ok"
    /\ info.entry = 4
    /\ trbk.open
    /\ trbk.name = 1
    /\ page = PageOf(1, 1)

----------------------------------------------------------------------------
(* The page the viewer is on (under SpecViewer).                           *)

InBook == app.state \in {"BookViewing", "Toc"}

\* C29: the viewer's page index stays in bounds.  While a book or its
\* table of contents is shown, the book is present and current_page is
\* below its page count.
C29_PageInBounds ==
    InBook =>
        /\ app.current_book # None
        /\ app.current_page < app.current_book.info.page_count

----------------------------------------------------------------------------
(* The two decoders on the same file (under SpecDecode).                   *)

BothDecoded == book # None /\ info # None

\* The page last fetched from the session of this file is a page that
\* parse_trbk returned too.
PageOfBoth ==
    /\ BothDecoded
    /\ IsOk(book)
    /\ info.kind = "Ok"
    /\ trbk.open
    /\ page # None
    /\ page.index < Len(book.pages)

\* C30: parser agreement.  parse_trbk and the streaming reader accept the
\* same files, and for a file they accept they give the same screen size,
\* page count, metadata, TOC, glyph table and page instructions.
C30_ParsersAgree ==
    /\ BothDecoded => (IsOk(book) <=> info.kind = "Ok")
    /\ (BothDecoded /\ IsOk(book) /\ info.kind = "Ok") =>
          /\ book.screen_width = info.info.screen_width
          /\ book.screen_height = info.info.screen_height
          /\ book.page_count = info.info.page_count
          /\ book.metadata = info.info.metadata
          /\ book.toc = info.info.toc
          /\ book.glyphs = info.info.glyphs
    /\ PageOfBoth =>
          /\ page.kind = "Ok"
          /\ page.ops = book.pages[page.index + 1].ops

====
